---- MODULE Spec2Model ----
(***************************************************************************)
(* NetCepter Pro, background service worker (src/background.js).           *)
(*                                                                         *)
(* The worker keeps three maps (attachedTabs, pendingRequests,             *)
(* requestData) and reacts to port messages from the panel and to events   *)
(* of chrome.debugger.  JavaScript runs one handler at a time, so every    *)
(* action below is one synchronous run of a handler: from its entry, or    *)
(* from the resolution of the promise it awaits, to its next await or its  *)
(* end.  A call of chrome.debugger.attach / detach / sendCommand is put in *)
(* the inflight queue of its tab; the browser answers the calls made on    *)
(* one tab in the order they were made, and the answer resumes the         *)
(* awaiting handler.  The panel (src/standalone.js) is the worker's        *)
(* collaborator at the other end of the port; its handlers are the actions *)
(* of PanelSpec.                                                           *)
(***************************************************************************)
EXTENDS Naturals, Sequences, FiniteSets

VARIABLES
    attachedTabs,     \* background.js:9   Map tabId -> {port, target}
    pendingRequests,  \* background.js:10  Map requestId -> {tabId, params}
    requestData,      \* background.js:11  Map requestId -> data
    connected,        \* port -> is the port still connected
    debuggee,         \* browser side: tab -> how far the debugger is set up
    txPaused,         \* browser side: <<tab, requestId>> held at a pause
    inflight,         \* tab -> awaited chrome.debugger calls, oldest first
    lastOp,           \* the message, event or answer handled by the last step
    txCall,           \* the chrome.debugger call issued by the last step
    emitted,          \* the port message delivered by the last step
    uncaught,         \* the last handler run ended with an uncaught exception
    dispatched,       \* requestId -> resume calls issued for the stored pause
    history,          \* requestId -> how its last stored pause left the store
    clock,            \* port messages and debugger events handled so far
    built,            \* the payload a handler composed last, with its inputs
    panel,            \* standalone.js: the panel's variables and its last step
    wire              \* the messages on their way between panel and worker

vars == <<attachedTabs, pendingRequests, requestData, connected, debuggee,
          txPaused, inflight, lastOp, txCall, emitted, uncaught, dispatched,
          history, clock, built, panel, wire>>

\* ------------------------------------------------------------------ bounds
Tabs == {"t1", "t2"}
Ports == {"p1", "p2"}
RequestIds == {"r1", "r2"}
MaxInflight == 2
MaxEvents == 4

\* requestPaused payload: responseStatusCode, or NoStatus when the field is absent
NoStatus == "none"
StatusCodes == {NoStatus, "200"}

Nil == "-"

\* ------------------------------------------------------------- Map helpers
EmptyMap == [k \in {} |-> Nil]

Has(m, k) == k \in DOMAIN m

MapSet(m, k, v) == [x \in DOMAIN m \cup {k} |-> IF x = k THEN v ELSE m[x]]

MapDelete(m, k) == [x \in DOMAIN m \ {k} |-> m[x]]

\* ------------------------------------------------------- per-step records
\* result: "message" (a port message), "caught" (a port message whose handler
\* caught an exception of its own), "event" (a browser event), "resolved" /
\* "rejected" (the answer to an awaited call).
Op(name, result, tabId, requestId, port) ==
    [op |-> name, result |-> result, tabId |-> tabId,
     requestId |-> requestId, port |-> port]

NoCall == [method |-> "none", tabId |-> Nil, requestId |-> Nil]

Call(method, tabId, requestId) ==
    [method |-> method, tabId |-> tabId, requestId |-> requestId]

NoMsg == [type |-> "none", port |-> Nil, tabId |-> Nil, requestId |-> Nil]

Msg(type, port, tabId, requestId) ==
    [type |-> type, port |-> port, tabId |-> tabId, requestId |-> requestId]

\* An awaited call: the handler that awaits it, the call, and what the
\* handler needs when it goes on.
Pending(name, method, requestId, port) ==
    [op |-> name, method |-> method, requestId |-> requestId, port |-> port]

ResumeMethods ==
    {"Fetch.continueRequest", "Fetch.fulfillRequest", "Fetch.failRequest"}

ResumeMessages == {"CONTINUE_REQUEST", "CONTINUE_RESPONSE", "BLOCK_REQUEST"}

\* port.postMessage(message) throws 'Attempting to use a disconnected port
\* object' on a disconnected port and delivers the message otherwise.
PostThrows(port) == ~connected[port]

Delivered(port, msg) == IF PostThrows(port) THEN NoMsg ELSE msg

\* Faulty variant: the error of postMessage leaves the handler.
PostEscapesUncaught(port) == PostThrows(port)

\* Every port.postMessage of the worker sits in a try block whose catch
\* takes the 'disconnected' error (lines 73-78, 94-102, 106-110, 163-240,
\* 408-421, 432-445, 449-462, 493-497): whether the error of a post to port
\* leaves the handler.
PostEscapes(port) == FALSE

\* ------------------------------------------------------------- browser side
\* debuggee[t]: "detached", "attached" (chrome.debugger.attach done),
\* "network" (Network.enable done), "fetch" (Fetch.enable done as well).
IsAttached(t) == debuggee[t] # "detached"

\* The browser ends the debugging session of t: every request it holds
\* paused for t is let go.
Released(t) == {pr \in txPaused : pr[1] # t}

\* The calls of one tab are answered in the order they were made: the call
\* answered next on tab t is the head of its queue.
Awaited(t, name, method) ==
    /\ inflight[t] # << >>
    /\ Head(inflight[t]).op = name
    /\ Head(inflight[t]).method = method

\* The head of t's queue is answered and its handler ends.
Answered(t) == [inflight EXCEPT ![t] = Tail(@)]

\* A handler issues the call c on tab t and awaits it.
Issued(t, c) == [inflight EXCEPT ![t] = Append(@, c)]

\* The head of t's queue is answered and its handler issues its next call.
AnsweredIssued(t, c) == [inflight EXCEPT ![t] = Append(Tail(@), c)]

RECURSIVE InflightCount(_)
InflightCount(S) ==
    IF S = {} THEN 0
    ELSE LET t == CHOOSE x \in S : TRUE
         IN Len(inflight[t]) + InflightCount(S \ {t})

Room == InflightCount(Tabs) < MaxInflight

\* One more port message or debugger event is handled.
Tick == clock < MaxEvents /\ clock' = clock + 1

\* A port message arrives: some panel is connected to send it.
PanelConnected == \E p \in Ports : connected[p]

\* ---------------------------------------------------------------- ghosts
Bump(n) == IF n < 2 THEN n + 1 ELSE 2

NoneDispatched == [id \in RequestIds |-> 0]

\* history[id] tells what happened last to the stored pause of id: "resumed"
\* (its resume call resolved and it left the store), "purged" (it left the
\* store when the session of its own tab ended), "failed" (a resume call for
\* it was rejected while it was stored), or "none" (anything else).
\* pendingRequests.clear() run because the session of tab t ended:
ClearedHistory(t) ==
    [id \in RequestIds |->
        IF Has(pendingRequests, id)
        THEN IF pendingRequests[id].tabId = t THEN "purged" ELSE "none"
        ELSE history[id]]

\* Worker and panel each on its own: no port joins them.
Off == [joined |-> FALSE, toWorker |-> << >>, toPanel |-> << >>]

\* The port the panel opens with chrome.runtime.connect (standalone.js:95),
\* as the worker sees it.
PanelPort == "p1"

\* No payload composed yet.
NoPayload == [handler |-> "none"]

\* ----------------------------------------------------------------- panel
\* A message the panel posts: its type, the request id, and whether it
\* carries a modifications object.
PanelMsg(type, id, mods) == [type |-> type, requestId |-> id, mods |-> mods]

\* standalone.js:10-14 after load: no port, no requests, nothing selected,
\* interception enabled; nothing posted yet.
PanelInit ==
    [port |-> "null",
     requests |-> EmptyMap,
     selectedRequestId |-> Nil,
     interceptionEnabled |-> TRUE,
     op |-> [name |-> "load", requestId |-> Nil],
     sent |-> << >>,
     thrown |-> FALSE]

Init ==
    /\ attachedTabs = EmptyMap
    /\ pendingRequests = EmptyMap
    /\ requestData = EmptyMap
    /\ connected = [p \in Ports |-> TRUE]
    /\ debuggee = [t \in Tabs |-> "detached"]
    /\ txPaused = {}
    /\ inflight = [t \in Tabs |-> << >>]
    /\ lastOp = Op("init", "event", Nil, Nil, Nil)
    /\ txCall = NoCall
    /\ emitted = NoMsg
    /\ uncaught = FALSE
    /\ dispatched = NoneDispatched
    /\ history = [id \in RequestIds |-> "none"]
    /\ clock = 0
    /\ built = NoPayload
    /\ panel = PanelInit
    /\ wire = Off

\* ------------------------------------------------- the port between them
\* wire is Off while worker and panel run each on its own, with every
\* message of the other side as a free input.  Joined, it holds the messages
\* posted on the port and not yet dispatched to the listener of the other
\* side, in the order posted: toWorker (standalone.js:135, 205, 234, 544,
\* 702, 734, 748) and toPanel (every port.postMessage of the worker).
\* The worker's step: a step that handled a port message took the head of
\* toWorker, and the message the step delivered to the panel's port is put
\* on toPanel.
WorkerMoved ==
    [joined |-> TRUE,
     toWorker |-> IF lastOp'.result \in {"message", "caught"}
                  THEN Tail(wire.toWorker) ELSE wire.toWorker,
     toPanel |-> IF emitted' # NoMsg /\ emitted'.port = PanelPort
                 THEN Append(wire.toPanel, emitted') ELSE wire.toPanel]

WorkerWire == wire' = IF wire.joined THEN WorkerMoved ELSE Off

\* The messages the panel's port.onMessage listener handles
\* (standalone.js:96-128): the three that only change the status line, and
\* the three about a request.
StatusMessages == {"DEBUGGER_ATTACHED", "DEBUGGER_DETACHED", "DEBUGGER_ERROR"}

PanelListens ==
    StatusMessages \cup
        {"REQUEST_INTERCEPTED", "RESPONSE_INTERCEPTED", "RESPONSE_BODY"}

\* The panel's step: a run of the onMessage listener took the head of
\* toPanel, and the messages the step posted are put on toWorker.
PanelMoved ==
    [joined |-> TRUE,
     toWorker |-> wire.toWorker \o panel'.sent,
     toPanel |-> IF panel'.op.name \in PanelListens
                 THEN Tail(wire.toPanel) ELSE wire.toPanel]

PanelWire == wire' = IF wire.joined THEN PanelMoved ELSE Off

\* ---------------------------------------------------------- attachDebugger
\* Faulty variant: the catch block logs the error and tells the panel nothing.
AttachCatchSilent(p) ==
    /\ emitted' = NoMsg
    /\ uncaught' = FALSE

\* The catch block of attachDebugger (lines 104-111): DEBUGGER_ERROR is
\* posted inside its own try/catch, so nothing leaves the handler.
AttachCatch(p) ==
    /\ emitted' = Delivered(p, Msg("DEBUGGER_ERROR", p, Nil, Nil))
    /\ uncaught' = PostEscapes(p)

\* Faulty variant: the check of line 72 never finds the tab.
IsRegisteredNever(t) == FALSE

\* Line 72: attachedTabs.has(tabId).
IsRegistered(t) == Has(attachedTabs, t)

\* Line 82: chrome.debugger.attach is called and awaited.
AttachCalled(t, p) ==
    /\ Room
    /\ inflight' = Issued(t, Pending("attachDebugger", "attach", Nil, p))
    /\ txCall' = Call("attach", t, Nil)
    /\ emitted' = NoMsg
    /\ attachedTabs' = attachedTabs

\* Faulty variant: the already-attached path returns without acknowledging.
AlreadyAttachedSilent(t, p) ==
    /\ attachedTabs' = attachedTabs
    /\ emitted' = NoMsg
    /\ txCall' = NoCall
    /\ inflight' = inflight

\* Lines 72-80: the tab is registered already.
AlreadyAttached(t, p) ==
    /\ IF PostThrows(p)
       THEN /\ attachedTabs' = MapDelete(attachedTabs, t)
            /\ emitted' = NoMsg
       ELSE /\ attachedTabs' = attachedTabs
            /\ emitted' = Msg("DEBUGGER_ATTACHED", p, t, Nil)
    /\ txCall' = NoCall
    /\ inflight' = inflight

\* ATTACH_DEBUGGER message from port p (lines 35-37): attachDebugger, lines
\* 67-82, up to its first await.
AttachDebugger(t, p) ==
    /\ Tick
    /\ connected[p]
    /\ lastOp' = Op("ATTACH_DEBUGGER", "message", t, Nil, p)
    /\ IF IsRegistered(t) THEN AlreadyAttached(t, p) ELSE AttachCalled(t, p)
    /\ uncaught' = FALSE
    /\ UNCHANGED <<pendingRequests, requestData, connected, debuggee,
                   txPaused, dispatched, history>>
    /\ UNCHANGED <<built, panel>>
    /\ WorkerWire

\* chrome.debugger.attach succeeds only on a tab no debugger is attached to;
\* it can also be refused for reasons outside the worker (another client's
\* debugger, a tab that cannot be debugged).
AttachOutcomes(t) == IF IsAttached(t) THEN {FALSE} ELSE {TRUE, FALSE}

\* Line 82 resolves or rejects; on success line 85 issues Network.enable.
AttachAnswered(t) ==
    /\ Awaited(t, "attachDebugger", "attach")
    /\ LET p == Head(inflight[t]).port
       IN \E ok \in AttachOutcomes(t) :
            IF ok
            THEN /\ lastOp' = Op("attach", "resolved", t, Nil, p)
                 /\ debuggee' = [debuggee EXCEPT ![t] = "attached"]
                 /\ inflight' = AnsweredIssued(t,
                        Pending("attachDebugger", "Network.enable", Nil, p))
                 /\ txCall' = Call("Network.enable", t, Nil)
                 /\ emitted' = NoMsg
                 /\ uncaught' = FALSE
            ELSE /\ lastOp' = Op("attach", "rejected", t, Nil, p)
                 /\ debuggee' = debuggee
                 /\ inflight' = Answered(t)
                 /\ txCall' = NoCall
                 /\ AttachCatch(p)
    /\ UNCHANGED <<attachedTabs, pendingRequests, requestData, connected,
                   txPaused, dispatched, history, clock>>
    /\ UNCHANGED <<built, panel>>
    /\ WorkerWire

\* sendCommand and detach on a tab succeed only while the debugger is
\* attached to it.
CommandOutcome(t) == IsAttached(t)

\* Line 85 resolves or rejects; on success lines 88-90 issue Fetch.enable.
NetworkEnableAnswered(t) ==
    /\ Awaited(t, "attachDebugger", "Network.enable")
    /\ LET p == Head(inflight[t]).port
       IN IF CommandOutcome(t)
          THEN /\ lastOp' = Op("Network.enable", "resolved", t, Nil, p)
               /\ debuggee' = [debuggee EXCEPT
                      ![t] = IF @ = "fetch" THEN "fetch" ELSE "network"]
               /\ inflight' = AnsweredIssued(t,
                      Pending("attachDebugger", "Fetch.enable", Nil, p))
               /\ txCall' = Call("Fetch.enable", t, Nil)
               /\ emitted' = NoMsg
               /\ uncaught' = FALSE
          ELSE /\ lastOp' = Op("Network.enable", "rejected", t, Nil, p)
               /\ debuggee' = debuggee
               /\ inflight' = Answered(t)
               /\ txCall' = NoCall
               /\ AttachCatch(p)
    /\ UNCHANGED <<attachedTabs, pendingRequests, requestData, connected,
                   txPaused, dispatched, history, clock>>
    /\ UNCHANGED <<built, panel>>
    /\ WorkerWire

\* Faulty variant: a failed acknowledgment is ignored, the tab stays registered.
RegisteredKept(t, p) ==
    /\ attachedTabs' = MapSet(attachedTabs, t, [port |-> p])
    /\ inflight' = Answered(t)
    /\ txCall' = NoCall
    /\ emitted' = Delivered(p, Msg("DEBUGGER_ATTACHED", p, t, Nil))

\* Lines 92-102 after Fetch.enable resolved: the tab is registered and
\* DEBUGGER_ATTACHED is posted; if the port is disconnected by then the tab
\* is unregistered again and chrome.debugger.detach is called and awaited.
Registered(t, p) ==
    IF PostThrows(p)
    THEN /\ attachedTabs' = MapDelete(MapSet(attachedTabs, t, [port |-> p]), t)
         /\ inflight' = AnsweredIssued(t,
                Pending("attachDebugger", "detach", Nil, p))
         /\ txCall' = Call("detach", t, Nil)
         /\ emitted' = NoMsg
    ELSE /\ attachedTabs' = MapSet(attachedTabs, t, [port |-> p])
         /\ inflight' = Answered(t)
         /\ txCall' = NoCall
         /\ emitted' = Msg("DEBUGGER_ATTACHED", p, t, Nil)

\* Lines 88-90 resolve or reject.
FetchEnableAnswered(t) ==
    /\ Awaited(t, "attachDebugger", "Fetch.enable")
    /\ LET p == Head(inflight[t]).port
       IN IF CommandOutcome(t)
          THEN /\ lastOp' = Op("Fetch.enable", "resolved", t, Nil, p)
               /\ debuggee' = [debuggee EXCEPT ![t] = "fetch"]
               /\ Registered(t, p)
               /\ uncaught' = PostEscapes(p)
          ELSE /\ lastOp' = Op("Fetch.enable", "rejected", t, Nil, p)
               /\ debuggee' = debuggee
               /\ attachedTabs' = attachedTabs
               /\ inflight' = Answered(t)
               /\ txCall' = NoCall
               /\ AttachCatch(p)
    /\ UNCHANGED <<pendingRequests, requestData, connected, txPaused,
                   dispatched, history, clock>>
    /\ UNCHANGED <<built, panel>>
    /\ WorkerWire

\* Line 100 resolves or rejects; a rejection is caught by lines 104-111.
CleanupDetachAnswered(t) ==
    /\ Awaited(t, "attachDebugger", "detach")
    /\ LET p == Head(inflight[t]).port
       IN /\ inflight' = Answered(t)
          /\ txCall' = NoCall
          /\ IF CommandOutcome(t)
             THEN /\ lastOp' = Op("detach", "resolved", t, Nil, p)
                  /\ debuggee' = [debuggee EXCEPT ![t] = "detached"]
                  /\ txPaused' = Released(t)
                  /\ emitted' = NoMsg
                  /\ uncaught' = FALSE
             ELSE /\ lastOp' = Op("detach", "rejected", t, Nil, p)
                  /\ debuggee' = debuggee
                  /\ txPaused' = txPaused
                  /\ AttachCatch(p)
    /\ UNCHANGED <<attachedTabs, pendingRequests, requestData, connected,
                   dispatched, history, clock>>
    /\ UNCHANGED <<built, panel>>
    /\ WorkerWire

\* ---------------------------------------------------------- detachDebugger
\* Faulty variant: detach is called without looking at attachedTabs.
DetachSkippedCalls(t) ==
    /\ Room
    /\ inflight' = Issued(t, Pending("detachDebugger", "detach", Nil, Nil))
    /\ txCall' = Call("detach", t, Nil)

\* Lines 117-119: the tab is not registered, detachDebugger returns.
DetachSkipped(t) ==
    /\ inflight' = inflight
    /\ txCall' = NoCall

\* DETACH_DEBUGGER message (lines 39-41): detachDebugger, lines 115-122, up
\* to the awaited detach call.
DetachDebugger(t) ==
    /\ Tick
    /\ PanelConnected
    /\ lastOp' = Op("DETACH_DEBUGGER", "message", t, Nil, Nil)
    /\ IF ~Has(attachedTabs, t)
       THEN DetachSkipped(t)
       ELSE /\ Room
            /\ inflight' = Issued(t, Pending("detachDebugger", "detach", Nil, Nil))
            /\ txCall' = Call("detach", t, Nil)
    /\ emitted' = NoMsg
    /\ uncaught' = FALSE
    /\ UNCHANGED <<attachedTabs, pendingRequests, requestData, connected,
                   debuggee, txPaused, dispatched, history>>
    /\ UNCHANGED <<built, panel>>
    /\ WorkerWire

\* Faulty variant: the store is not cleared when a session ends.
KeptPending == pendingRequests

\* pendingRequests.clear() and requestData.clear(), lines 124-125 and 502-503.
ClearedPending == EmptyMap

ClearedData == EmptyMap

\* Lines 122-128: the detach call resolves (the tab is unregistered and both
\* stores are cleared) or rejects (caught and logged, nothing else is done).
DetachAnswered(t) ==
    /\ Awaited(t, "detachDebugger", "detach")
    /\ inflight' = Answered(t)
    /\ IF CommandOutcome(t)
       THEN /\ lastOp' = Op("detach", "resolved", t, Nil, Nil)
            /\ debuggee' = [debuggee EXCEPT ![t] = "detached"]
            /\ txPaused' = Released(t)
            /\ attachedTabs' = MapDelete(attachedTabs, t)
            /\ pendingRequests' = ClearedPending
            /\ requestData' = ClearedData
            /\ history' = ClearedHistory(t)
            /\ dispatched' = NoneDispatched
       ELSE /\ lastOp' = Op("detach", "rejected", t, Nil, Nil)
            /\ UNCHANGED <<debuggee, txPaused, attachedTabs, pendingRequests,
                           requestData, history, dispatched>>
    /\ txCall' = NoCall
    /\ emitted' = NoMsg
    /\ uncaught' = FALSE
    /\ UNCHANGED <<connected, clock>>
    /\ UNCHANGED <<built, panel>>
    /\ WorkerWire

\* ------------------------------------------------ chrome.debugger.onDetach
\* The browser ends the session of tab t on its own (tab closed, another
\* debugger took over, the user cancelled): listener of lines 488-504.
OnDetach(t) ==
    /\ Tick
    /\ IsAttached(t)
    /\ lastOp' = Op("onDetach", "event", t, Nil, Nil)
    /\ debuggee' = [debuggee EXCEPT ![t] = "detached"]
    /\ txPaused' = Released(t)
    /\ IF Has(attachedTabs, t)
       THEN /\ emitted' = Delivered(attachedTabs[t].port,
                   Msg("DEBUGGER_DETACHED", attachedTabs[t].port, Nil, Nil))
            /\ attachedTabs' = MapDelete(attachedTabs, t)
            /\ uncaught' = PostEscapes(attachedTabs[t].port)
       ELSE /\ emitted' = NoMsg
            /\ attachedTabs' = attachedTabs
            /\ uncaught' = FALSE
    /\ pendingRequests' = ClearedPending
    /\ requestData' = ClearedData
    /\ history' = ClearedHistory(t)
    /\ dispatched' = NoneDispatched
    /\ txCall' = NoCall
    /\ UNCHANGED <<connected, inflight>>
    /\ UNCHANGED <<built, panel>>
    /\ WorkerWire

\* ------------------------------------------------- chrome.debugger.onEvent
\* handleRequestPaused, lines 152-241, for a pause with the given
\* responseStatusCode: the new values of the three maps and the message.
\* Faulty variant: the pause is not stored by the step that handles it.
PausedStoreDeferred(t, id, status) == pendingRequests

PausedStore(t, id, status) ==
    MapSet(pendingRequests, id, [tabId |-> t, responseStatusCode |-> status])

PausedData(id, status) ==
    IF status # NoStatus THEN requestData
    ELSE MapSet(requestData, id, [response |-> FALSE])

PausedMsg(t, id, status) ==
    IF status # NoStatus
    THEN Msg("RESPONSE_INTERCEPTED", attachedTabs[t].port, Nil, id)
    ELSE Msg("REQUEST_INTERCEPTED", attachedTabs[t].port, Nil, id)

\* Lines 229-236: postMessage threw 'disconnected'.
PausedTabs(t) ==
    IF PostThrows(attachedTabs[t].port)
    THEN MapDelete(attachedTabs, t) ELSE attachedTabs

\* The browser pauses request id of tab t and reports Fetch.requestPaused;
\* the listener (lines 132-149) drops the event of an unregistered tab.
RequestPaused(t, id, status) ==
    /\ Tick
    /\ debuggee[t] = "fetch"
    /\ <<t, id>> \notin txPaused
    /\ txPaused' = txPaused \cup {<<t, id>>}
    /\ lastOp' = Op("Fetch.requestPaused", "event", t, id, Nil)
    /\ IF Has(attachedTabs, t)
       THEN /\ pendingRequests' = PausedStore(t, id, status)
            /\ requestData' = PausedData(id, status)
            /\ emitted' = Delivered(attachedTabs[t].port, PausedMsg(t, id, status))
            /\ attachedTabs' = PausedTabs(t)
            /\ dispatched' = [dispatched EXCEPT ![id] = 0]
            /\ history' = [history EXCEPT ![id] = "none"]
            /\ uncaught' = PostEscapes(attachedTabs[t].port)
       ELSE /\ emitted' = NoMsg
            /\ uncaught' = FALSE
            /\ UNCHANGED <<pendingRequests, requestData, attachedTabs,
                           dispatched, history>>
    /\ txCall' = NoCall
    /\ UNCHANGED <<connected, debuggee, inflight>>
    /\ UNCHANGED <<built, panel>>
    /\ WorkerWire

\* Faulty variant: the metadata is stored whether or not the id has a record.
ReceivedDataAlways(t, id) ==
    IF Has(attachedTabs, t)
    THEN MapSet(requestData, id, [response |-> TRUE])
    ELSE requestData

\* Lines 136-138 and 248-254: requestData after Network.responseReceived for
\* request id of tab t.
ReceivedData(t, id) ==
    IF Has(attachedTabs, t) /\ Has(requestData, id)
    THEN MapSet(requestData, id, [response |-> TRUE])
    ELSE requestData

\* Network.responseReceived, lines 244-255: response metadata is attached to
\* the stored request data of the same id, if there is one.
ResponseReceived(t, id) ==
    /\ Tick
    /\ debuggee[t] \in {"network", "fetch"}
    /\ lastOp' = Op("Network.responseReceived", "event", t, id, Nil)
    /\ requestData' = ReceivedData(t, id)
    /\ txCall' = NoCall
    /\ emitted' = NoMsg
    /\ uncaught' = FALSE
    /\ UNCHANGED <<attachedTabs, pendingRequests, connected, debuggee,
                   txPaused, inflight, dispatched, history>>
    /\ UNCHANGED <<built, panel>>
    /\ WorkerWire

\* ------------------------- continueRequest, continueResponse, blockRequest
\* Lines 259-263, 323-327, 370-374: the exchange is looked up in
\* pendingRequests; the handler returns when it is not there.
Lookup(id) == Has(pendingRequests, id)

\* Faulty variant: an unknown exchange id makes the handler throw.
NotFoundThrows(id) ==
    /\ inflight' = inflight
    /\ txCall' = NoCall
    /\ emitted' = NoMsg
    /\ uncaught' = TRUE
    /\ UNCHANGED <<attachedTabs, pendingRequests, requestData, dispatched>>

\* Lines 260-263, 324-327, 371-374: console.error and return.
NotFound(id) ==
    /\ inflight' = inflight
    /\ txCall' = NoCall
    /\ emitted' = NoMsg
    /\ uncaught' = FALSE
    /\ UNCHANGED <<attachedTabs, pendingRequests, requestData, dispatched>>

\* Faulty variant: the call goes to a registered tab, whichever it is.
TargetRegistered(id) ==
    IF attachedTabs = EmptyMap THEN pendingRequests[id].tabId
    ELSE CHOOSE t \in DOMAIN attachedTabs : TRUE

\* Lines 265-266, 329-330, 376-377: const { tabId } = pending;
\* const target = { tabId }.
Target(id) == pendingRequests[id].tabId

\* Lines 265-314, 329-361, 376-383: the resume call is issued on the tab
\* recorded with the exchange and awaited.
Found(name, method, id) ==
    /\ Room
    /\ inflight' = Issued(Target(id), Pending(name, method, id, Nil))
    /\ txCall' = Call(method, Target(id), id)
    /\ dispatched' = [dispatched EXCEPT ![id] = Bump(@)]
    /\ emitted' = NoMsg
    /\ uncaught' = FALSE
    /\ UNCHANGED <<attachedTabs, pendingRequests, requestData>>

\* Lines 349-357 and 363-365: the patch of a CONTINUE_RESPONSE has a body that
\* neither encoding accepts; the second btoa throws inside the try block, the
\* catch logs, and the handler ends without a call.
BuildThrown(id) ==
    /\ inflight' = inflight
    /\ txCall' = NoCall
    /\ emitted' = NoMsg
    /\ uncaught' = FALSE
    /\ UNCHANGED <<attachedTabs, pendingRequests, requestData, dispatched>>

\* CONTINUE_REQUEST, CONTINUE_RESPONSE or BLOCK_REQUEST message (lines 43-53):
\* the handler up to its await.  builds: the command can be composed from the
\* patch; lastOp.result is "caught" when composing it threw.
Resume(message, name, method, id, builds) ==
    /\ Tick
    /\ PanelConnected
    /\ lastOp' = Op(message,
           IF Lookup(id) /\ ~builds THEN "caught" ELSE "message", Nil, id, Nil)
    /\ IF Lookup(id)
       THEN IF builds THEN Found(name, method, id) ELSE BuildThrown(id)
       ELSE NotFound(id)
    /\ UNCHANGED <<connected, debuggee, txPaused, history>>
    /\ UNCHANGED <<built, panel>>
    /\ WorkerWire

\* continueRequest drops a postData it cannot encode (lines 298-310) and
\* blockRequest has a fixed payload: their commands are always composed.
ContinueRequest(id) ==
    Resume("CONTINUE_REQUEST", "continueRequest", "Fetch.continueRequest", id,
           TRUE)

ContinueResponse(id, builds) ==
    Resume("CONTINUE_RESPONSE", "continueResponse", "Fetch.fulfillRequest", id,
           builds)

BlockRequest(id) ==
    Resume("BLOCK_REQUEST", "blockRequest", "Fetch.failRequest", id, TRUE)

\* A resume call succeeds only for a request the browser holds paused on that
\* tab; it can be rejected otherwise too (a payload the browser refuses).
ResumeOutcomes(t, id) ==
    IF debuggee[t] = "fetch" /\ <<t, id>> \in txPaused
    THEN {TRUE, FALSE} ELSE {FALSE}

\* Faulty variant: the entry is not deleted after the resume call resolved.
ResolvedKept(id) == pendingRequests

\* pendingRequests.delete(requestId), lines 315, 362, 385.
Resolved(id) == MapDelete(pendingRequests, id)

\* Faulty variant: a failed resume call drops the exchange.
RejectedDropped(id) == MapDelete(pendingRequests, id)

\* Lines 316-318, 363-365, 386-388: the catch logs and leaves the entry.
Rejected(id) == pendingRequests

\* Lines 314-318, 361-365, 380-388: the resume call resolves (the entry is
\* deleted from pendingRequests) or rejects (caught and logged).
ResumeAnswered(t) ==
    /\ inflight[t] # << >>
    /\ Head(inflight[t]).method \in ResumeMethods
    /\ LET id == Head(inflight[t]).requestId
           method == Head(inflight[t]).method
       IN /\ inflight' = Answered(t)
          /\ \E ok \in ResumeOutcomes(t, id) :
               IF ok
               THEN /\ lastOp' = Op(method, "resolved", t, id, Nil)
                    /\ txPaused' = txPaused \ {<<t, id>>}
                    /\ pendingRequests' = Resolved(id)
                    /\ history' = [history EXCEPT ![id] =
                           IF Has(pendingRequests, id) THEN "resumed" ELSE @]
               ELSE /\ lastOp' = Op(method, "rejected", t, id, Nil)
                    /\ pendingRequests' = Rejected(id)
                    /\ history' = [history EXCEPT ![id] =
                           IF Has(pendingRequests, id) THEN "failed" ELSE @]
                    /\ txPaused' = txPaused
          /\ dispatched' = [dispatched EXCEPT ![id] = 0]
    /\ txCall' = NoCall
    /\ emitted' = NoMsg
    /\ uncaught' = FALSE
    /\ UNCHANGED <<attachedTabs, requestData, connected, debuggee, clock>>
    /\ UNCHANGED <<built, panel>>
    /\ WorkerWire

\* --------------------------------------------------------- getResponseBody
\* What a body accessor returns: the body and whether it is base64-encoded.
BodyResults ==
    {[body |-> "text", base64Encoded |-> FALSE],
     [body |-> "dGV4dA==", base64Encoded |-> TRUE]}

\* Lines 409-414 and 433-438: the RESPONSE_BODY message for a result.
BodyMsg(port, id, result) ==
    [type |-> "RESPONSE_BODY", port |-> port, tabId |-> Nil,
     requestId |-> id, body |-> result.body,
     base64Encoded |-> result.base64Encoded, notAvailable |-> FALSE]

\* Lines 450-456: the message that tells the body is not available.
NotAvailableMsg(port, id) ==
    [type |-> "RESPONSE_BODY", port |-> port, tabId |-> Nil,
     requestId |-> id, body |-> "", base64Encoded |-> FALSE,
     notAvailable |-> TRUE]

\* Faulty variant: fetching the body drops the stored exchange.
BodyFetchedDropped(id) == MapDelete(pendingRequests, id)

\* Lines 392-464 hold no statement on pendingRequests.
BodyFetched(id) == pendingRequests

\* GET_RESPONSE_BODY message from port p (lines 55-57, 392-406): the handler
\* up to its first await.  The tab is not looked up in attachedTabs.
GetResponseBody(t, id, p) ==
    /\ Tick
    /\ connected[p]
    /\ Room
    /\ lastOp' = Op("GET_RESPONSE_BODY", "message", t, id, p)
    /\ inflight' = Issued(t,
           Pending("getResponseBody", "Fetch.getResponseBody", id, p))
    /\ txCall' = Call("Fetch.getResponseBody", t, id)
    /\ pendingRequests' = BodyFetched(id)
    /\ emitted' = NoMsg
    /\ uncaught' = FALSE
    /\ UNCHANGED <<attachedTabs, requestData, connected, debuggee, txPaused,
                   dispatched, history>>
    /\ UNCHANGED <<built, panel>>
    /\ WorkerWire

\* Fetch.getResponseBody succeeds only for a request the browser holds
\* paused on that tab (at its response stage); it can be rejected anyway.
FetchBodyOutcomes(t, id) ==
    IF debuggee[t] = "fetch" /\ <<t, id>> \in txPaused
    THEN {TRUE, FALSE} ELSE {FALSE}

\* Network.getResponseBody succeeds only while the Network domain of the tab
\* is enabled and knows a response under that id.
NetworkBodyOutcomes(t) ==
    IF debuggee[t] \in {"network", "fetch"} THEN {TRUE, FALSE} ELSE {FALSE}

\* Faulty variant: a failed first accessor is answered with the
\* not-available message at once, without the fallback call.
FetchBodyRejectedNoFallback(t, id, p) ==
    /\ inflight' = Answered(t)
    /\ txCall' = NoCall
    /\ emitted' = Delivered(p, NotAvailableMsg(p, id))

\* Lines 423-430: the first accessor failed; the catch is empty and the
\* handler goes on to call Network.getResponseBody.
FetchBodyRejected(t, id, p) ==
    /\ inflight' = AnsweredIssued(t,
           Pending("getResponseBody", "Network.getResponseBody", id, p))
    /\ txCall' = Call("Network.getResponseBody", t, id)
    /\ emitted' = NoMsg

\* Faulty variant: after posting the result the handler does not return and
\* goes on to the fallback call.
FetchBodyResolvedFallsThrough(t, id, p) ==
    /\ inflight' = AnsweredIssued(t,
           Pending("getResponseBody", "Network.getResponseBody", id, p))
    /\ txCall' = Call("Network.getResponseBody", t, id)
    /\ \E result \in BodyResults :
           emitted' = Delivered(p, BodyMsg(p, id, result))

\* Lines 408-422: the result of the first accessor is posted and the handler
\* returns.
FetchBodyResolved(t, id, p) ==
    /\ inflight' = Answered(t)
    /\ txCall' = NoCall
    /\ \E result \in BodyResults :
           emitted' = Delivered(p, BodyMsg(p, id, result))

\* Lines 404-430: the first accessor is answered.  Its result is posted to
\* the asking port (a throw of postMessage on a disconnected port is caught
\* and logged) and the handler returns, or the fallback call is made.
FetchBodyAnswered(t) ==
    /\ Awaited(t, "getResponseBody", "Fetch.getResponseBody")
    /\ LET id == Head(inflight[t]).requestId
           p == Head(inflight[t]).port
       IN \E ok \in FetchBodyOutcomes(t, id) :
            IF ok
            THEN /\ lastOp' = Op("Fetch.getResponseBody", "resolved", t, id, p)
                 /\ FetchBodyResolved(t, id, p)
                 /\ uncaught' = PostEscapes(p)
            ELSE /\ lastOp' = Op("Fetch.getResponseBody", "rejected", t, id, p)
                 /\ FetchBodyRejected(t, id, p)
                 /\ uncaught' = FALSE
    /\ pendingRequests' = BodyFetched(Head(inflight[t]).requestId)
    /\ UNCHANGED <<attachedTabs, requestData, connected, debuggee, txPaused,
                   dispatched, history, clock>>
    /\ UNCHANGED <<built, panel>>
    /\ WorkerWire

\* Lines 428-463: the fallback accessor is answered.  Its result is posted,
\* or the outer catch posts the not-available message; a throw of either
\* postMessage on a disconnected port is caught.
NetworkBodyAnswered(t) ==
    /\ Awaited(t, "getResponseBody", "Network.getResponseBody")
    /\ LET id == Head(inflight[t]).requestId
           p == Head(inflight[t]).port
       IN \E ok \in NetworkBodyOutcomes(t) :
            IF ok
            THEN /\ lastOp' = Op("Network.getResponseBody", "resolved", t, id, p)
                 /\ \E result \in BodyResults :
                        emitted' = Delivered(p, BodyMsg(p, id, result))
            ELSE /\ lastOp' = Op("Network.getResponseBody", "rejected", t, id, p)
                 /\ emitted' = Delivered(p, NotAvailableMsg(p, id))
    /\ inflight' = Answered(t)
    /\ txCall' = NoCall
    /\ pendingRequests' = BodyFetched(Head(inflight[t]).requestId)
    /\ uncaught' = PostEscapes(Head(inflight[t]).port)
    /\ UNCHANGED <<attachedTabs, requestData, connected, debuggee, txPaused,
                   dispatched, history, clock>>
    /\ UNCHANGED <<built, panel>>
    /\ WorkerWire

\* ------------------------------------------------------- port.onDisconnect
\* The panel goes away; the listener of lines 61-63 has an empty body.  A
\* port disconnects once, so these steps need no share of the event budget.
PortDisconnect(p) ==
    /\ connected[p]
    /\ clock' = clock
    /\ connected' = [connected EXCEPT ![p] = FALSE]
    /\ lastOp' = Op("onDisconnect", "event", Nil, Nil, p)
    /\ txCall' = NoCall
    /\ emitted' = NoMsg
    /\ uncaught' = FALSE
    /\ UNCHANGED <<attachedTabs, pendingRequests, requestData, debuggee,
                   txPaused, inflight, dispatched, history>>
    /\ UNCHANGED <<built, panel>>
    /\ WorkerWire

\* ------------------------------------------------------------ specification
Next ==
    \/ \E t \in Tabs, p \in Ports : AttachDebugger(t, p)
    \/ \E t \in Tabs : AttachAnswered(t)
    \/ \E t \in Tabs : NetworkEnableAnswered(t)
    \/ \E t \in Tabs : FetchEnableAnswered(t)
    \/ \E t \in Tabs : CleanupDetachAnswered(t)
    \/ \E t \in Tabs : DetachDebugger(t)
    \/ \E t \in Tabs : DetachAnswered(t)
    \/ \E t \in Tabs : OnDetach(t)
    \/ \E t \in Tabs, id \in RequestIds, status \in StatusCodes :
           RequestPaused(t, id, status)
    \/ \E t \in Tabs, id \in RequestIds : ResponseReceived(t, id)
    \/ \E id \in RequestIds : ContinueRequest(id)
    \/ \E id \in RequestIds, builds \in BOOLEAN : ContinueResponse(id, builds)
    \/ \E id \in RequestIds : BlockRequest(id)
    \/ \E t \in Tabs : ResumeAnswered(t)
    \/ \E p \in Ports : PortDisconnect(p)

Spec == Init /\ [][Next]_vars

\* The browser answers every call the worker awaits.
Fairness ==
    \A t \in Tabs :
        /\ WF_vars(AttachAnswered(t))
        /\ WF_vars(NetworkEnableAnswered(t))
        /\ WF_vars(FetchEnableAnswered(t))
        /\ WF_vars(CleanupDetachAnswered(t))
        /\ WF_vars(DetachAnswered(t))
        /\ WF_vars(ResumeAnswered(t))

FairSpec == Spec /\ Fairness

\* The operator answers a stored pause nothing was dispatched for yet: the
\* panel posts CONTINUE_REQUEST, CONTINUE_RESPONSE or BLOCK_REQUEST for it
\* (standalone.js:636-757).
OperatorAnswers(id) ==
    /\ Has(pendingRequests, id)
    /\ dispatched[id] = 0
    /\ \/ ContinueRequest(id)
       \/ ContinueResponse(id, TRUE)
       \/ BlockRequest(id)

\* The browser answers every call and the operator leaves no stored pause
\* unanswered.
AnsweredSpec ==
    Spec /\ Fairness /\ \A id \in RequestIds : WF_vars(OperatorAnswers(id))

\* ------------------------------------------- pauses and resumes in sessions
\* The worker once ATTACH_DEBUGGER of port p1 has run to its acknowledgement
\* for every tab (lines 82-97: the three calls resolved, attachedTabs.set,
\* DEBUGGER_ATTACHED posted): a state Spec reaches after one message per tab,
\* taken as the start so that the events counted are pauses, resume messages
\* and the ends of sessions.
SessionsInit ==
    /\ attachedTabs = [t \in Tabs |-> [port |-> "p1"]]
    /\ pendingRequests = EmptyMap
    /\ requestData = EmptyMap
    /\ connected = [p \in Ports |-> TRUE]
    /\ debuggee = [t \in Tabs |-> "fetch"]
    /\ txPaused = {}
    /\ inflight = [t \in Tabs |-> << >>]
    /\ lastOp = Op("init", "event", Nil, Nil, Nil)
    /\ txCall = NoCall
    /\ emitted = NoMsg
    /\ uncaught = FALSE
    /\ dispatched = NoneDispatched
    /\ history = [id \in RequestIds |-> "none"]
    /\ clock = 0
    /\ built = NoPayload
    /\ panel = PanelInit
    /\ wire = Off

SessionsNext ==
    \/ \E t \in Tabs, id \in RequestIds, status \in StatusCodes :
           RequestPaused(t, id, status)
    \/ \E id \in RequestIds : ContinueRequest(id)
    \/ \E id \in RequestIds, builds \in BOOLEAN : ContinueResponse(id, builds)
    \/ \E id \in RequestIds : BlockRequest(id)
    \/ \E t \in Tabs : ResumeAnswered(t)
    \/ \E t \in Tabs : OnDetach(t)

SessionsSpec == SessionsInit /\ [][SessionsNext]_vars

\* ------------------------------------------------- JavaScript values used
\* A string is the sequence of its UTF-16 code units.  An object is a
\* function of its own keys, so a field the object lacks is not in DOMAIN.
\* An optional input is << >> (absent) or <<v>> (present with value v).
EmptyStr == << >>

Truthy(s) == s # EmptyStr

Present(opt) == opt # << >>

\* obj with the field k set to the value of opt, when opt is present.
WithField(obj, k, opt) == IF Present(opt) THEN MapSet(obj, k, opt[1]) ELSE obj

Space == 32

\* String.prototype.trim
RECURSIVE TrimStart(_)
TrimStart(s) ==
    IF s # << >> /\ Head(s) = Space THEN TrimStart(Tail(s)) ELSE s

RECURSIVE TrimEnd(_)
TrimEnd(s) ==
    IF s # << >> /\ s[Len(s)] = Space
    THEN TrimEnd(SubSeq(s, 1, Len(s) - 1)) ELSE s

Trim(s) == TrimEnd(TrimStart(s))

\* UTF-16 surrogates
IsHigh(c) == c >= 55296 /\ c <= 56319

IsLow(c) == c >= 56320 /\ c <= 57343

\* encodeURIComponent throws URIError on a string with a lone surrogate.
RECURSIVE WellFormed(_)
WellFormed(s) ==
    IF s = << >> THEN TRUE
    ELSE IF IsHigh(Head(s))
         THEN Len(s) >= 2 /\ IsLow(s[2]) /\ WellFormed(SubSeq(s, 3, Len(s)))
         ELSE ~IsLow(Head(s)) /\ WellFormed(Tail(s))

\* The UTF-8 bytes of one code point.
Utf8Bytes(cp) ==
    IF cp < 128 THEN <<cp>>
    ELSE IF cp < 2048 THEN <<192 + (cp \div 64), 128 + (cp % 64)>>
    ELSE IF cp < 65536
         THEN <<224 + (cp \div 4096), 128 + ((cp \div 64) % 64),
                128 + (cp % 64)>>
         ELSE <<240 + (cp \div 262144), 128 + ((cp \div 4096) % 64),
                128 + ((cp \div 64) % 64), 128 + (cp % 64)>>

\* unescape(encodeURIComponent(s)) of a well-formed string: one code unit per
\* UTF-8 byte of s.
RECURSIVE Utf8(_)
Utf8(s) ==
    IF s = << >> THEN << >>
    ELSE IF IsHigh(Head(s))
         THEN Utf8Bytes(65536 + ((Head(s) - 55296) * 1024) + (s[2] - 56320))
                  \o Utf8(SubSeq(s, 3, Len(s)))
         ELSE Utf8Bytes(Head(s)) \o Utf8(Tail(s))

\* btoa throws InvalidCharacterError unless every code unit is below 256.
Latin1(s) == \A i \in 1..Len(s) : s[i] < 256

\* btoa: the base64 digits (0..63, Pad for '=') of a Latin-1 string.
Pad == 64

RECURSIVE Btoa(_)
Btoa(s) ==
    IF s = << >> THEN << >>
    ELSE IF Len(s) = 1
         THEN <<s[1] \div 4, (s[1] % 4) * 16, Pad, Pad>>
    ELSE IF Len(s) = 2
         THEN <<s[1] \div 4, ((s[1] % 4) * 16) + (s[2] \div 16),
                (s[2] % 16) * 4, Pad>>
    ELSE <<s[1] \div 4, ((s[1] % 4) * 16) + (s[2] \div 16),
           ((s[2] % 16) * 4) + (s[3] \div 64), s[3] % 64>>
             \o Btoa(SubSeq(s, 4, Len(s)))

\* Lines 298-310 and 351-357: btoa(unescape(encodeURIComponent(text))), and
\* btoa(text) when that throws.  << >> when the second attempt throws too.
EncodedBody(text) ==
    IF WellFormed(text) THEN <<Btoa(Utf8(text))>>
    ELSE IF Latin1(text) THEN <<Btoa(text)>>
    ELSE << >>

\* ------------------------------------------------------------ header forms
\* A name/value list is a sequence of entries, each an object that may lack
\* name or value.  A mapping is the sequence of the <<name, value>> pairs of
\* an object in the order of Object.entries, no name twice.  Headers arrive
\* as [kind |-> "list", items |-> ...], [kind |-> "mapping", entries |-> ...]
\* or [kind |-> "other"] (null, a string, a number).

\* Faulty variant: every entry of a header list is kept.
ValidHeaderAny(h) == TRUE

\* Line 285: h && h.name && h.value !== undefined.
ValidHeader(h) == Has(h, "name") /\ Truthy(h.name) /\ Has(h, "value")

\* Line 289: name && value !== undefined (a value that arrived is defined).
ValidEntry(e) == Truthy(e[1])

\* Line 290: ({ name: String(name).trim(), value: String(value).trim() }).
TrimmedHeader(e) == [name |-> Trim(e[1]), value |-> Trim(e[2])]

\* Lines 283-294: command.headers of continueRequest.
CommandHeaders(headers) ==
    IF headers.kind = "list" THEN SelectSeq(headers.items, ValidHeader)
    ELSE IF headers.kind = "mapping"
         THEN LET kept == SelectSeq(headers.entries, ValidEntry)
              IN [i \in 1..Len(kept) |-> TrimmedHeader(kept[i])]
         ELSE << >>

\* ---------------------------------------------------------- continueRequest
\* Faulty variant: a postData that cannot be encoded is sent as it came.
WithPostDataRaw(command, postData) ==
    IF Present(EncodedBody(postData))
    THEN MapSet(command, "postData", EncodedBody(postData)[1])
    ELSE MapSet(command, "postData", postData)

\* Lines 296-311: command.postData is assigned inside two nested try blocks;
\* when both encodings throw the command is left without the field.
WithPostData(command, postData) ==
    WithField(command, "postData", EncodedBody(postData))

\* Lines 269-312: the command of Fetch.continueRequest for the exchange id
\* and the message msg (requestId, and modifications when a patch was sent).
ContinueRequestCommand(id, msg) ==
    LET command == MapSet(EmptyMap, "requestId", id)
    IN IF ~Has(msg, "modifications") THEN command
       ELSE LET modifications == msg.modifications
                withUrl ==
                    IF Has(modifications, "url") /\ Truthy(modifications.url)
                    THEN MapSet(command, "url", modifications.url)
                    ELSE command
                withMethod ==
                    IF Has(modifications, "method")
                        /\ Truthy(modifications.method)
                    THEN MapSet(withUrl, "method", modifications.method)
                    ELSE withUrl
                withHeaders ==
                    IF Has(modifications, "headers")
                    THEN MapSet(withMethod, "headers",
                             CommandHeaders(modifications.headers))
                    ELSE withMethod
            IN IF Has(modifications, "postData")
               THEN WithPostData(withHeaders, modifications.postData)
               ELSE withHeaders

\* --------------------------------------------------------- continueResponse
\* Faulty variant: no default for a pause without a status code.
DefaultCodeRaw(params) ==
    IF Has(params, "responseStatusCode") THEN params.responseStatusCode ELSE 0

\* Line 337: params.responseStatusCode || 200.
DefaultCode(params) ==
    IF Has(params, "responseStatusCode") /\ params.responseStatusCode # 0
    THEN params.responseStatusCode ELSE 200

\* Line 338: params.responseHeaders || [].
DefaultHeaders(params) ==
    IF Has(params, "responseHeaders") THEN params.responseHeaders ELSE << >>

\* Lines 335-359: the command of Fetch.fulfillRequest for the stored pause
\* params and the message msg, as <<command>>; << >> when btoa of line 356
\* throws, which ends the handler in its catch without a call.
ContinueResponseCommand(id, params, msg) ==
    LET command ==
            MapSet(MapSet(MapSet(EmptyMap, "requestId", id),
                "responseCode", DefaultCode(params)),
                "responseHeaders", DefaultHeaders(params))
    IN IF ~Has(msg, "modifications") THEN <<command>>
       ELSE LET modifications == msg.modifications
                withCode ==
                    IF Has(modifications, "responseCode")
                        /\ modifications.responseCode # 0
                    THEN MapSet(command, "responseCode",
                             modifications.responseCode)
                    ELSE command
                withHeaders ==
                    IF Has(modifications, "responseHeaders")
                    THEN MapSet(withCode, "responseHeaders",
                             modifications.responseHeaders)
                    ELSE withCode
            IN IF ~Has(modifications, "body") THEN <<withHeaders>>
               ELSE IF Present(EncodedBody(modifications.body))
                    THEN <<MapSet(withHeaders, "body",
                               EncodedBody(modifications.body)[1])>>
                    ELSE << >>

\* ------------------------------------------------------ handleRequestPaused
\* Lines 467-485: getStatusText.
StatusTexts ==
    [code \in {200, 201, 204, 301, 302, 304, 400, 401, 403, 404, 500, 502, 503}
        |-> CASE code = 200 -> "OK"
              [] code = 201 -> "Created"
              [] code = 204 -> "No Content"
              [] code = 301 -> "Moved Permanently"
              [] code = 302 -> "Found"
              [] code = 304 -> "Not Modified"
              [] code = 400 -> "Bad Request"
              [] code = 401 -> "Unauthorized"
              [] code = 403 -> "Forbidden"
              [] code = 404 -> "Not Found"
              [] code = 500 -> "Internal Server Error"
              [] code = 502 -> "Bad Gateway"
              [] code = 503 -> "Service Unavailable"]

\* Faulty variant: a code outside the table has no text.
getStatusTextNoDefault(code) ==
    IF code \in DOMAIN StatusTexts THEN StatusTexts[code] ELSE "undefined"

\* Line 484: statusTexts[code] || 'Unknown'.
getStatusText(code) ==
    IF code \in DOMAIN StatusTexts THEN StatusTexts[code] ELSE "Unknown"

\* headersObj[name] = value on a mapping kept as a sequence of pairs.
ObjPut(obj, name, value) ==
    IF \E i \in 1..Len(obj) : obj[i][1] = name
    THEN [i \in 1..Len(obj) |->
             IF obj[i][1] = name THEN <<name, value>> ELSE obj[i]]
    ELSE Append(obj, <<name, value>>)

\* Lines 193-197: the forEach over a header list.
RECURSIVE ObjOfList(_, _)
ObjOfList(items, obj) ==
    IF items = << >> THEN obj
    ELSE ObjOfList(Tail(items),
             IF ValidHeader(Head(items))
             THEN ObjPut(obj, Head(items).name, Head(items).value)
             ELSE obj)

\* Lines 185-209: headersObj of a request.
headersObj(request) ==
    IF ~Has(request, "headers") THEN << >>
    ELSE IF request.headers.kind = "list"
         THEN ObjOfList(request.headers.items, << >>)
    ELSE IF request.headers.kind = "mapping" THEN request.headers.entries
    ELSE << >>

\* Faulty variant: the name and the value are trimmed on the way.
EntryOfPairTrimmed(e) == [name |-> Trim(e[1]), value |-> Trim(e[2])]

\* Line 201: ([name, value]) => ({ name, value }).
EntryOfPair(e) == [name |-> e[1], value |-> e[2]]

\* Lines 185-209: headersArray of a request.
headersArray(request) ==
    IF ~Has(request, "headers") THEN << >>
    ELSE IF request.headers.kind = "list" THEN request.headers.items
    ELSE IF request.headers.kind = "mapping"
         THEN [i \in 1..Len(request.headers.entries) |->
                  EntryOfPair(request.headers.entries[i])]
    ELSE << >>

\* Faulty variant: every pause is taken for a request interception.
IsResponsePauseNever(params) == FALSE

\* Line 165: if (responseStatusCode).
IsResponsePause(params) ==
    Has(params, "responseStatusCode") /\ params.responseStatusCode # 0

\* Line 176 and 220: resourceType || 'other'.
ResourceType(params) ==
    IF Has(params, "resourceType") THEN params.resourceType ELSE "other"

\* Lines 165-227: the message posted for a pause event (its timestamp, the
\* time of the call, is left out).
InterceptedMessage(params) ==
    IF IsResponsePause(params)
    THEN [type |-> "RESPONSE_INTERCEPTED",
          requestId |-> params.requestId,
          url |-> params.request.url,
          method |-> params.request.method,
          status |-> params.responseStatusCode,
          statusText |-> getStatusText(params.responseStatusCode),
          headers |-> IF Has(params, "responseHeaders")
                      THEN params.responseHeaders ELSE << >>,
          resourceType |-> ResourceType(params)]
    ELSE [type |-> "REQUEST_INTERCEPTED",
          requestId |-> params.requestId,
          url |-> params.request.url,
          method |-> params.request.method,
          headers |-> headersObj(params.request),
          headersArray |-> headersArray(params.request),
          postData |-> IF Has(params.request, "postData")
                       THEN <<params.request.postData>> ELSE << >>,
          resourceType |-> ResourceType(params)]

\* --------------------------------------------- the body fetch in a session
\* getResponseBody writes none of the worker's maps and reads none, so its
\* steps are checked next to the steps that decide what the accessors answer
\* and whether the asking port still takes a message: sessions being set up
\* and ended, requests being paused, ports going away.
\* The handler passes the request id on unread: one id, paused or not when
\* the body is asked for, stands for all.
BodyIds == {"r1"}

BodyNext ==
    \/ \E t \in Tabs, p \in Ports : AttachDebugger(t, p)
    \/ \E t \in Tabs : AttachAnswered(t)
    \/ \E t \in Tabs : NetworkEnableAnswered(t)
    \/ \E t \in Tabs : FetchEnableAnswered(t)
    \/ \E t \in Tabs : CleanupDetachAnswered(t)
    \/ \E t \in Tabs : OnDetach(t)
    \/ \E t \in Tabs, id \in BodyIds, status \in StatusCodes :
           RequestPaused(t, id, status)
    \/ \E t \in Tabs, id \in BodyIds, p \in Ports :
           GetResponseBody(t, id, p)
    \/ \E t \in Tabs : FetchBodyAnswered(t)
    \/ \E t \in Tabs : NetworkBodyAnswered(t)
    \/ \E p \in Ports : PortDisconnect(p)

BodySpec == Init /\ [][BodyNext]_vars

\* ------------------------------------------- payloads: inputs and actions
MaxHeaders == 2
MaxBody == 2

Opt(S) == {<< >>} \cup {<<x>> : x \in S}

SeqsUpTo(S, n) == UNION {[1..k -> S] : k \in 0..n}

\* "" and "u"; "" and "P"
Urls == {EmptyStr, <<117>>}

Methods == {EmptyStr, <<80>>}

\* "", "A", " A", " "; "v", "v "
Names == {EmptyStr, <<65>>, <<32, 65>>, <<32>>}

Values == {<<118>>, <<118, 32>>}

\* Entries of a header list: name absent, "" or "A"; value absent or "v".
HeaderItems ==
    {WithField(WithField(EmptyMap, "name", n), "value", v) :
        n \in Opt({EmptyStr, <<65>>}), v \in Opt({<<118>>})}

HeaderLists == SeqsUpTo(HeaderItems, MaxHeaders)

Mappings ==
    {e \in SeqsUpTo(Names \X Values, MaxHeaders) :
        \A i, j \in 1..Len(e) : i # j => e[i][1] # e[j][1]}

Headers ==
    {[kind |-> "list", items |-> l] : l \in HeaderLists}
        \cup {[kind |-> "mapping", entries |-> e] : e \in Mappings}
        \cup {[kind |-> "other"]}

\* "A", Latin-1 e-acute, the euro sign, a high and a low surrogate.
BodyUnits == {65, 233, 8364, 55357, 56832}

Bodies == SeqsUpTo(BodyUnits, MaxBody)

\* Response header lists as the protocol reports them.
ResponseHeaders == {<< >>, <<[name |-> <<88>>, value |-> <<89>>]>>}

PatchedResponseHeaders == {<< >>, <<[name |-> <<90>>, value |-> <<87>>]>>}

CapturedCodes == {0, 200, 418}

PatchedCodes == {0, 404}

\* The message of a resume command: requestId, and modifications if patched.
ResumeMsg(id, patched, modifications) ==
    IF patched
    THEN MapSet(MapSet(EmptyMap, "requestId", id),
             "modifications", modifications)
    ELSE MapSet(EmptyMap, "requestId", id)

\* The params of a Fetch.requestPaused event.
PauseParams(id, status, responseHeaders, headers, postData, resourceType) ==
    WithField(WithField(WithField(
        MapSet(MapSet(EmptyMap, "requestId", id), "request",
            WithField(WithField(
                MapSet(MapSet(EmptyMap, "url", <<117>>), "method", <<71>>),
                "headers", headers), "postData", postData)),
        "responseStatusCode", status),
        "responseHeaders", responseHeaders),
        "resourceType", resourceType)

worker ==
    <<attachedTabs, pendingRequests, requestData, connected, debuggee,
      txPaused, inflight, lastOp, txCall, emitted, uncaught, dispatched,
      history, clock>>

\* continueRequest composes its command from a CONTINUE_REQUEST message.
ContinueRequestPayload(id, patched, url, method, headers, postData) ==
    LET msg == ResumeMsg(id, patched,
                   WithField(WithField(WithField(WithField(EmptyMap,
                       "url", url), "method", method),
                       "headers", headers), "postData", postData))
    IN [handler |-> "continueRequest",
        requestId |-> id,
        msg |-> msg,
        command |-> ContinueRequestCommand(id, msg)]

ComposeContinueRequest ==
    /\ built = NoPayload
    /\ \E id \in RequestIds, patched \in BOOLEAN, url \in Opt(Urls),
          method \in Opt(Methods), headers \in Opt(Headers),
          postData \in Opt(Bodies) :
           built' = ContinueRequestPayload(id, patched, url, method, headers,
                                           postData)
    /\ UNCHANGED <<worker, panel, wire>>

\* continueResponse composes its command from the stored pause and a
\* CONTINUE_RESPONSE message.
ContinueResponsePayload(id, status, captured, patched, code, headers, body) ==
    LET params == PauseParams(id, status, captured, << >>, << >>, << >>)
        msg == ResumeMsg(id, patched,
                   WithField(WithField(WithField(EmptyMap,
                       "responseCode", code),
                       "responseHeaders", headers), "body", body))
    IN [handler |-> "continueResponse",
        requestId |-> id,
        params |-> params,
        msg |-> msg,
        command |-> ContinueResponseCommand(id, params, msg)]

ComposeContinueResponse ==
    /\ built = NoPayload
    /\ \E id \in RequestIds, status \in Opt(CapturedCodes),
          captured \in Opt(ResponseHeaders), patched \in BOOLEAN,
          code \in Opt(PatchedCodes), headers \in Opt(PatchedResponseHeaders),
          body \in Opt(Bodies) :
           built' = ContinueResponsePayload(id, status, captured, patched,
                                            code, headers, body)
    /\ UNCHANGED <<worker, panel, wire>>

\* handleRequestPaused composes the message for a pause event.
InterceptedPayload(id, status, captured, headers, postData, resourceType) ==
    LET params == PauseParams(id, status, captured, headers, postData,
                      resourceType)
    IN [handler |-> "handleRequestPaused",
        requestId |-> id,
        params |-> params,
        data |-> InterceptedMessage(params)]

ComposeIntercepted ==
    /\ built = NoPayload
    /\ \E id \in RequestIds, status \in Opt(CapturedCodes),
          captured \in Opt(ResponseHeaders), headers \in Opt(Headers),
          postData \in Opt({<<65>>}), resourceType \in Opt({"XHR"}) :
           built' = InterceptedPayload(id, status, captured, headers,
                                       postData, resourceType)
    /\ UNCHANGED <<worker, panel, wire>>

\* Faulty variant: an entry already stored for the id is kept.
StoredPauseFirstWins(store, t, params) ==
    IF Has(store, params.requestId) THEN store
    ELSE MapSet(store, params.requestId, [tabId |-> t, params |-> params])

\* Line 156: pendingRequests.set(requestId, { tabId, params }) on a store of
\* whole pause events.
StoredPause(store, t, params) ==
    MapSet(store, params.requestId, [tabId |-> t, params |-> params])

\* Two pause events for one exchange id pass handleRequestPaused, the first
\* of the request stage and the second of the response stage, and then
\* continueResponse composes its command from what the store holds for the id
\* (lines 323-329: pendingRequests.get(requestId), its params).
PausedTwicePayload(id, t, u, status, captured, patched, code, headers) ==
    LET first == PauseParams(id, << >>, << >>, << >>, << >>, <<"XHR">>)
        second == PauseParams(id, <<status>>, captured, << >>, << >>, << >>)
        store == StoredPause(StoredPause(EmptyMap, t, first), u, second)
        msg == ResumeMsg(id, patched,
                   WithField(WithField(EmptyMap,
                       "responseCode", code),
                       "responseHeaders", headers))
    IN [handler |-> "pausedTwice",
        requestId |-> id,
        first |-> first,
        second |-> second,
        secondTab |-> u,
        store |-> store,
        msg |-> msg,
        command |-> ContinueResponseCommand(id, store[id].params, msg)]

ComposePausedTwice ==
    /\ built = NoPayload
    /\ \E id \in RequestIds, t \in Tabs, u \in Tabs, status \in CapturedCodes,
          captured \in Opt(ResponseHeaders), patched \in BOOLEAN,
          code \in Opt(PatchedCodes), headers \in Opt(PatchedResponseHeaders) :
           built' = PausedTwicePayload(id, t, u, status, captured, patched,
                                       code, headers)
    /\ UNCHANGED <<worker, panel, wire>>

\* A header mapping is turned into a name/value list and the list back into
\* a mapping: by handleRequestPaused both ways (lines 199-201, then 190-197),
\* and with the list continueRequest makes of a mapping (lines 286-290).
RoundTripPayload(entries) ==
    LET mapping == [kind |-> "mapping", entries |-> entries]
        list == headersArray([headers |-> mapping])
        commandList == CommandHeaders(mapping)
    IN [handler |-> "roundTrip",
        mapping |-> entries,
        list |-> list,
        back |-> headersObj([headers |-> [kind |-> "list", items |-> list]]),
        commandList |-> commandList,
        commandBack |->
            headersObj([headers |->
                           [kind |-> "list", items |-> commandList]])]

ComposeRoundTrip ==
    /\ built = NoPayload
    /\ \E entries \in Mappings : built' = RoundTripPayload(entries)
    /\ UNCHANGED <<worker, panel, wire>>

\* Status codes of response-stage pauses: every code of the table of
\* getStatusText and codes around and between its entries.
ResponseCodes ==
    DOMAIN StatusTexts \cup {100, 199, 202, 203, 303, 402, 418, 501, 504, 599}

\* handleRequestPaused composes the message for a response-stage pause
\* (lines 165-180).
ComposeResponseIntercepted ==
    /\ built = NoPayload
    /\ \E id \in RequestIds, status \in ResponseCodes,
          captured \in Opt(ResponseHeaders), resourceType \in Opt({"XHR"}) :
           built' = InterceptedPayload(id, <<status>>, captured, << >>, << >>,
                                       resourceType)
    /\ UNCHANGED <<worker, panel, wire>>

PayloadNext ==
    \/ ComposeContinueRequest
    \/ ComposeContinueResponse
    \/ ComposeIntercepted
    \/ ComposePausedTwice
    \/ ComposeRoundTrip
    \/ ComposeResponseIntercepted

\* Each handler composes its payload from its inputs alone: the payloads are
\* checked for every input, one handler run at a time.
PayloadSpec == Init /\ [][PayloadNext]_vars

\* ------------------------------------------------ the panel, standalone.js
\* An entry of requests: type "request" or "response", isPaused, status
\* "paused" / "completed" / "blocked", whether responseStatus is set and
\* whether a non-empty responseBody is cached.
PanelEntry(type, isPaused, status, responseStatus, responseBody) ==
    [type |-> type, isPaused |-> isPaused, status |-> status,
     responseStatus |-> responseStatus, responseBody |-> responseBody]

PanelOp(name, id) == [name |-> name, requestId |-> id]

\* port.postMessage of the panel throws when there is no port or the port
\* is disconnected.
PanelPostThrows == panel.port # "connected"

\* One handler of the panel ran: what it did to port, requests, selection
\* and toggle, the messages it posted, and whether it ended in an exception.
PanelStep(name, id, port, requests, selected, enabled, sent, thrown) ==
    /\ panel' = [port |-> port,
                 requests |-> requests,
                 selectedRequestId |-> selected,
                 interceptionEnabled |-> enabled,
                 op |-> PanelOp(name, id),
                 sent |-> sent,
                 thrown |-> thrown]
    /\ UNCHANGED <<worker, built>>
    /\ PanelWire

\* Lines 542-549, displayRequestDetails: the body of a paused response
\* without a cached body is asked for.
BodyWanted(request) ==
    request.responseStatus /\ ~request.responseBody /\ request.isPaused

DetailsMessages(id, request) ==
    IF BodyWanted(request)
    THEN <<PanelMsg("GET_RESPONSE_BODY", id, FALSE)>> ELSE << >>

\* Lines 83-87 and 90-136, selectTab and connectToBackground: a new port is
\* opened and ATTACH_DEBUGGER is posted on it.
SelectTab ==
    PanelStep("selectTab", Nil, "connected", panel.requests,
        panel.selectedRequestId, panel.interceptionEnabled,
        <<PanelMsg("ATTACH_DEBUGGER", Nil, FALSE)>>, FALSE)

\* Lines 130-132: the port is disconnected from the other side.
PanelPortDisconnect ==
    /\ panel.port = "connected"
    /\ PanelStep("onDisconnect", Nil, "disconnected", panel.requests,
           panel.selectedRequestId, panel.interceptionEnabled, << >>, FALSE)

\* Lines 878-901, reconnectDebugger: the port is dropped, the requests are
\* cleared and a new port is opened.
ReconnectDebugger ==
    /\ panel.port # "null"
    /\ PanelStep("reconnectDebugger", Nil, "connected", EmptyMap, Nil,
           panel.interceptionEnabled,
           <<PanelMsg("ATTACH_DEBUGGER", Nil, FALSE)>>, FALSE)

\* Lines 157-160: the intercept toggle is switched.
ToggleIntercept ==
    PanelStep("toggle", Nil, panel.port, panel.requests,
        panel.selectedRequestId, ~panel.interceptionEnabled, << >>, FALSE)

\* Faulty variant: with the toggle off the event is dropped unanswered.
AutoContinueNone(type, id) == << >>

\* Lines 204-209 and 233-238: with the toggle off the event is answered
\* with a continue command of its kind, without modifications.
AutoContinue(type, id) == <<PanelMsg(type, id, FALSE)>>

\* Lines 202-229, handleRequestIntercepted.  A message arrives on a
\* connected port.
RequestInterceptedReceived(id) ==
    /\ panel.port = "connected"
    /\ IF ~panel.interceptionEnabled
       THEN PanelStep("REQUEST_INTERCEPTED", id, panel.port, panel.requests,
                panel.selectedRequestId, panel.interceptionEnabled,
                AutoContinue("CONTINUE_REQUEST", id), FALSE)
       ELSE PanelStep("REQUEST_INTERCEPTED", id, panel.port,
                MapSet(panel.requests, id,
                    PanelEntry("request", TRUE, "paused", FALSE, FALSE)),
                panel.selectedRequestId, panel.interceptionEnabled,
                << >>, FALSE)

\* Lines 241-261: the response stage of a listed request updates its entry.
ResponseEntry(id) ==
    IF Has(panel.requests, id)
    THEN PanelEntry("response", TRUE, "paused", TRUE,
             panel.requests[id].responseBody)
    ELSE PanelEntry("response", TRUE, "paused", TRUE, FALSE)

\* Lines 231-275, handleResponseIntercepted.
ResponseInterceptedReceived(id) ==
    /\ panel.port = "connected"
    /\ IF ~panel.interceptionEnabled
       THEN PanelStep("RESPONSE_INTERCEPTED", id, panel.port, panel.requests,
                panel.selectedRequestId, panel.interceptionEnabled,
                AutoContinue("CONTINUE_RESPONSE", id), FALSE)
       ELSE PanelStep("RESPONSE_INTERCEPTED", id, panel.port,
                MapSet(panel.requests, id, ResponseEntry(id)),
                panel.selectedRequestId, panel.interceptionEnabled,
                << >>, FALSE)

\* Lines 277-297, handleResponseBody: the body is cached in the entry (an
\* empty body counts as none) and the details are drawn again when the
\* request is the selected one.
ResponseBodyReceived(id, nonEmpty) ==
    /\ panel.port = "connected"
    /\ IF Has(panel.requests, id)
       THEN LET request == [panel.requests[id] EXCEPT
                               !.responseBody = nonEmpty]
            IN PanelStep("RESPONSE_BODY", id, panel.port,
                   MapSet(panel.requests, id, request),
                   panel.selectedRequestId, panel.interceptionEnabled,
                   IF panel.selectedRequestId = id
                   THEN DetailsMessages(id, request) ELSE << >>, FALSE)
       ELSE PanelStep("RESPONSE_BODY", id, panel.port, panel.requests,
                panel.selectedRequestId, panel.interceptionEnabled,
                << >>, FALSE)

\* Lines 99-110: DEBUGGER_ATTACHED, DEBUGGER_DETACHED and DEBUGGER_ERROR
\* change the status line (updateStatus) and nothing else; the list of
\* requests is left as it is.
StatusReceived(type) ==
    /\ panel.port = "connected"
    /\ PanelStep(type, Nil, panel.port, panel.requests,
           panel.selectedRequestId, panel.interceptionEnabled, << >>, FALSE)

\* Lines 390-406, selectRequest: an item of the list is clicked; the
\* details view may ask for the body, which throws without a live port.
SelectRequest(id) ==
    /\ Has(panel.requests, id)
    /\ LET wanted == DetailsMessages(id, panel.requests[id])
       IN PanelStep("selectRequest", id, panel.port, panel.requests, id,
              panel.interceptionEnabled,
              IF PanelPostThrows THEN << >> ELSE wanted,
              wanted # << >> /\ PanelPostThrows)

\* Lines 409-432, deselectRequest.
DeselectRequest ==
    PanelStep("deselectRequest", Nil, panel.port, panel.requests, Nil,
        panel.interceptionEnabled, << >>, FALSE)

\* Lines 780-809, clearRequests.
ClearRequests ==
    PanelStep("clearRequests", Nil, panel.port, EmptyMap, Nil,
        panel.interceptionEnabled, << >>, FALSE)

\* Lines 637-638 and 745-746: the action applies to the selected request
\* if it is listed and paused.
Actionable ==
    /\ Has(panel.requests, panel.selectedRequestId)
    /\ panel.requests[panel.selectedRequestId].isPaused

\* Faulty variant: the request stays paused after the command was posted.
ActedKept(request, status) == request

\* Lines 737-738 and 753-754: isPaused = false, status = completed/blocked.
Acted(request, status) ==
    [request EXCEPT !.isPaused = FALSE, !.status = status]

\* The selected request gets the command msg: posted, then marked; a throw
\* of postMessage leaves the handler before the entry is touched.
Apply(name, msg, status) ==
    LET id == panel.selectedRequestId
    IN IF ~Actionable
       THEN PanelStep(name, id, panel.port, panel.requests, id,
                panel.interceptionEnabled, << >>, FALSE)
       ELSE IF PanelPostThrows
            THEN PanelStep(name, id, panel.port, panel.requests, id,
                     panel.interceptionEnabled, << >>, TRUE)
            ELSE PanelStep(name, id, panel.port,
                     MapSet(panel.requests, id,
                         Acted(panel.requests[id], status)),
                     id, panel.interceptionEnabled, <<msg>>, FALSE)

\* Lines 636-741, continueRequest(withModifications): CONTINUE_REQUEST or
\* CONTINUE_RESPONSE by the type of the entry; mods tells whether the
\* message carries a modifications object (lines 696-698, 731).
ContinueClicked(mods) ==
    LET id == panel.selectedRequestId
        type == IF Actionable /\ panel.requests[id].type = "response"
                THEN "CONTINUE_RESPONSE" ELSE "CONTINUE_REQUEST"
    IN Apply("continueRequest", PanelMsg(type, id, mods), "completed")

\* Lines 744-757, blockRequest.
BlockClicked ==
    Apply("blockRequest",
        PanelMsg("BLOCK_REQUEST", panel.selectedRequestId, FALSE), "blocked")

PanelNext ==
    \/ SelectTab
    \/ PanelPortDisconnect
    \/ ReconnectDebugger
    \/ ToggleIntercept
    \/ \E id \in RequestIds : RequestInterceptedReceived(id)
    \/ \E id \in RequestIds : ResponseInterceptedReceived(id)
    \/ \E id \in RequestIds, nonEmpty \in BOOLEAN :
           ResponseBodyReceived(id, nonEmpty)
    \/ \E type \in StatusMessages : StatusReceived(type)
    \/ \E id \in RequestIds : SelectRequest(id)
    \/ DeselectRequest
    \/ ClearRequests
    \/ \E mods \in BOOLEAN : ContinueClicked(mods)
    \/ BlockClicked

\* The panel's handlers, for every message the worker can send it and
\* every action of its user.
PanelSpec == Init /\ [][PanelNext]_vars

\* ------------------------------------------- panel and worker on one port
\* The panel with one tab selected, joined to the worker by its port: every
\* message the worker handles is one the panel posted, every message the
\* panel handles is one the worker delivered, each in the order posted.
SystemTab == "t1"

\* The messages the panel's user can leave waiting for the worker.
MaxWire == 2

Joined == [joined |-> TRUE, toWorker |-> << >>, toPanel |-> << >>]

SystemInit ==
    /\ attachedTabs = EmptyMap
    /\ pendingRequests = EmptyMap
    /\ requestData = EmptyMap
    /\ connected = [p \in Ports |-> TRUE]
    /\ debuggee = [t \in Tabs |-> "detached"]
    /\ txPaused = {}
    /\ inflight = [t \in Tabs |-> << >>]
    /\ lastOp = Op("init", "event", Nil, Nil, Nil)
    /\ txCall = NoCall
    /\ emitted = NoMsg
    /\ uncaught = FALSE
    /\ dispatched = NoneDispatched
    /\ history = [id \in RequestIds |-> "none"]
    /\ clock = 0
    /\ built = NoPayload
    /\ panel = PanelInit
    /\ wire = Joined

\* The message the worker's port.onMessage listener is called with next
\* (background.js:28-33).
Posted(type) ==
    /\ wire.toWorker # << >>
    /\ Head(wire.toWorker).type = type

\* The message the panel's port.onMessage listener is called with next
\* (standalone.js:96-98).
Arrived(type) ==
    /\ wire.toPanel # << >>
    /\ Head(wire.toPanel).type = type

\* standalone.js:83-87: the user picks the tab; once.
TabSelected ==
    /\ panel.port = "null"
    /\ SelectTab

\* background.js:35-37, case 'ATTACH_DEBUGGER'.
AttachPosted ==
    /\ Posted("ATTACH_DEBUGGER")
    /\ AttachDebugger(SystemTab, PanelPort)

\* background.js:43-45, case 'CONTINUE_REQUEST'.
ContinueRequestPosted ==
    /\ Posted("CONTINUE_REQUEST")
    /\ ContinueRequest(Head(wire.toWorker).requestId)

\* background.js:47-49, case 'CONTINUE_RESPONSE'; only a message with
\* modifications can carry a body that cannot be encoded.
ContinueResponsePosted ==
    /\ Posted("CONTINUE_RESPONSE")
    /\ \E builds \in IF Head(wire.toWorker).mods THEN BOOLEAN ELSE {TRUE} :
           ContinueResponse(Head(wire.toWorker).requestId, builds)

\* background.js:51-53, case 'BLOCK_REQUEST'.
BlockRequestPosted ==
    /\ Posted("BLOCK_REQUEST")
    /\ BlockRequest(Head(wire.toWorker).requestId)

\* background.js:55-57, case 'GET_RESPONSE_BODY'.
GetResponseBodyPosted ==
    /\ Posted("GET_RESPONSE_BODY")
    /\ GetResponseBody(SystemTab, Head(wire.toWorker).requestId, PanelPort)

\* standalone.js:99-110.
StatusArrived ==
    \E type \in StatusMessages :
        /\ Arrived(type)
        /\ StatusReceived(type)

\* standalone.js:112-114, case 'REQUEST_INTERCEPTED'.
RequestInterceptedArrived ==
    /\ Arrived("REQUEST_INTERCEPTED")
    /\ RequestInterceptedReceived(Head(wire.toPanel).requestId)

\* standalone.js:116-118, case 'RESPONSE_INTERCEPTED'.
ResponseInterceptedArrived ==
    /\ Arrived("RESPONSE_INTERCEPTED")
    /\ ResponseInterceptedReceived(Head(wire.toPanel).requestId)

\* standalone.js:120-122, case 'RESPONSE_BODY'.
ResponseBodyArrived ==
    /\ Arrived("RESPONSE_BODY")
    /\ ResponseBodyReceived(Head(wire.toPanel).requestId,
           Head(wire.toPanel).body # "")

\* The user clicks while fewer than MaxWire messages wait for the worker.
UserSelects(id) ==
    /\ Len(wire.toWorker) < MaxWire
    /\ SelectRequest(id)

UserContinues(mods) ==
    /\ Len(wire.toWorker) < MaxWire
    /\ Actionable
    /\ ContinueClicked(mods)

UserBlocks ==
    /\ Len(wire.toWorker) < MaxWire
    /\ Actionable
    /\ BlockClicked

SystemNext ==
    \/ TabSelected
    \/ AttachPosted
    \/ AttachAnswered(SystemTab)
    \/ NetworkEnableAnswered(SystemTab)
    \/ FetchEnableAnswered(SystemTab)
    \/ OnDetach(SystemTab)
    \/ \E id \in RequestIds, status \in StatusCodes :
           RequestPaused(SystemTab, id, status)
    \/ ContinueRequestPosted
    \/ ContinueResponsePosted
    \/ BlockRequestPosted
    \/ ResumeAnswered(SystemTab)
    \/ GetResponseBodyPosted
    \/ FetchBodyAnswered(SystemTab)
    \/ NetworkBodyAnswered(SystemTab)
    \/ StatusArrived
    \/ RequestInterceptedArrived
    \/ ResponseInterceptedArrived
    \/ ResponseBodyArrived
    \/ ToggleIntercept
    \/ \E id \in RequestIds : UserSelects(id)
    \/ \E mods \in BOOLEAN : UserContinues(mods)
    \/ UserBlocks

SystemSpec == SystemInit /\ [][SystemNext]_vars

\* ------------------------------------------------------------ observations
\* The last step issued a resume call for exchange id.
ResumeCallFor(id) == txCall.method \in ResumeMethods /\ txCall.requestId = id

\* The last step handled a resume/block message for exchange id.
ResumeMessageFor(id) == lastOp.op \in ResumeMessages /\ lastOp.requestId = id

\* The tab that owns the stored exchange id.
Owner(id) == pendingRequests[id].tabId

\* ------------------------------------------------------------------ claims
\* C1: for every stored pause of an exchange id, at most one resume call
\* (continueRequest, fulfillRequest, failRequest) is sent to the browser
\* unless the previous one was rejected, also when a second command arrives
\* while the first call is still awaited.
C1_AtMostOneResume == \A id \in RequestIds : dispatched[id] <= 1

\* C2: once the resume call of an exchange id has resolved, the id is not in
\* pendingRequests and no later resume/block message for it issues a call,
\* until a new pause for that id is stored.
C2_ResolvedIsGone ==
    \A id \in RequestIds :
        history[id] = "resumed" =>
            ~Has(pendingRequests, id) /\ ~ResumeCallFor(id)

C2_Witness ==
    \E id \in RequestIds : history[id] = "resumed" /\ ResumeMessageFor(id)

\* C3: a CONTINUE_REQUEST, CONTINUE_RESPONSE or BLOCK_REQUEST message whose
\* exchange id is not in pendingRequests issues no call, emits no message,
\* raises nothing, and leaves the stores and attachedTabs unchanged.
C3_UnknownIdIsNoOp ==
    [][\A id \in RequestIds :
          (ResumeMessageFor(id)' /\ ~Has(pendingRequests, id)) =>
              /\ txCall' = NoCall
              /\ emitted' = NoMsg
              /\ ~uncaught'
              /\ UNCHANGED <<pendingRequests, requestData, attachedTabs,
                             inflight>>]_vars

C3_Witness ==
    /\ lastOp.op = "BLOCK_REQUEST"
    /\ ~Has(pendingRequests, lastOp.requestId)
    /\ pendingRequests # EmptyMap
    /\ attachedTabs # EmptyMap

\* C4: when the session of tab T ends by a resolved detach or by onDetach,
\* every exchange stored for T is removed, and no resume call is issued for
\* any of them afterwards, whatever messages arrive later.
C4_PurgedStaysPurged ==
    \A id \in RequestIds :
        history[id] = "purged" =>
            ~Has(pendingRequests, id) /\ ~ResumeCallFor(id)

C4_Witness ==
    \E id \in RequestIds : history[id] = "purged" /\ ResumeMessageFor(id)

\* C5: a stored exchange leaves pendingRequests only by the resolved resume
\* call of its own id or by the end of the session of its own tab: ending
\* the session of tab A leaves the exchanges of another tab B stored.
C5_LeavesOnlyByOwnResumeOrTeardown ==
    [][\A id \in RequestIds :
          (Has(pendingRequests, id) /\ ~Has(pendingRequests', id)) =>
              \/ /\ lastOp'.op \in ResumeMethods
                 /\ lastOp'.result = "resolved"
                 /\ lastOp'.requestId = id
              \/ /\ lastOp'.op \in {"detach", "onDetach"}
                 /\ lastOp'.result \in {"resolved", "event"}
                 /\ lastOp'.tabId = Owner(id)]_vars

\* C6: every exchange in pendingRequests belongs to a tab that is in
\* attachedTabs.
C6_StoredTabsRegistered ==
    \A id \in DOMAIN pendingRequests : Has(attachedTabs, Owner(id))

\* C7: when the port of a registered tab disconnects, the session is
\* eventually ended: the tab leaves attachedTabs, the debugger is detached
\* from it, and no exchange of the tab stays in pendingRequests.
SessionEnded(t) ==
    /\ ~Has(attachedTabs, t)
    /\ ~IsAttached(t)
    /\ \A id \in DOMAIN pendingRequests : Owner(id) # t

PortLost(t) == Has(attachedTabs, t) /\ ~connected[attachedTabs[t].port]

C7_DisconnectEndsSession == \A t \in Tabs : PortLost(t) ~> SessionEnded(t)

\* C8: an ATTACH_DEBUGGER message for a tab that is registered already is
\* answered with DEBUGGER_ATTACHED on the asking port, issues no attach or
\* enable call, leaves attachedTabs as it is and emits no DEBUGGER_ERROR.
AttachMessage(t, p) == Op("ATTACH_DEBUGGER", "message", t, Nil, p)

C8_AttachAgainAcks ==
    [][\A t \in Tabs, p \in Ports :
          (lastOp' = AttachMessage(t, p) /\ Has(attachedTabs, t)) =>
              /\ emitted' = Msg("DEBUGGER_ATTACHED", p, t, Nil)
              /\ txCall' = NoCall
              /\ inflight' = inflight
              /\ attachedTabs' = attachedTabs]_vars

C8_Witness ==
    /\ lastOp.op = "ATTACH_DEBUGGER"
    /\ txCall = NoCall
    /\ Has(attachedTabs, lastOp.tabId)
    /\ attachedTabs[lastOp.tabId].port # lastOp.port
    /\ emitted.type = "DEBUGGER_ATTACHED"

\* C9: there are never two sessions for one tab: the worker calls
\* chrome.debugger.attach only for a tab that is not registered, an attach
\* call resolves only on a tab no debugger is attached to, and a debugger
\* leaves a tab only by a resolved detach call or an onDetach event, so that
\* between two resolved attach calls for a tab there is one of the two.
C9_OneSessionPerTab ==
    [][\A t \in Tabs :
          /\ (txCall'.method = "attach" /\ txCall'.tabId = t /\ clock' # clock)
                 => ~Has(attachedTabs, t)
          /\ (lastOp'.op = "attach" /\ lastOp'.result = "resolved"
                 /\ lastOp'.tabId = t) => ~IsAttached(t)
          /\ (IsAttached(t) /\ ~IsAttached(t)') =>
                 /\ lastOp'.op \in {"detach", "onDetach"}
                 /\ lastOp'.result \in {"resolved", "event"}
                 /\ lastOp'.tabId = t]_vars

\* A second attach call for a tab is refused while the debugger of the first
\* is attached to it.
C9_Witness ==
    /\ lastOp.op = "attach"
    /\ lastOp.result = "rejected"
    /\ IsAttached(lastOp.tabId)

\* C10 as stated: a rejected attach, Network.enable or Fetch.enable call
\* sends DEBUGGER_ERROR to the asking port, the tab is not registered, and
\* nothing is raised out of the handler.
AttachSteps == {"attach", "Network.enable", "Fetch.enable"}

AttachRejected(t, p) ==
    /\ lastOp.op \in AttachSteps
    /\ lastOp.result = "rejected"
    /\ lastOp.tabId = t
    /\ lastOp.port = p

C10_Original ==
    \A t \in Tabs, p \in Ports :
        AttachRejected(t, p) =>
            /\ emitted = Msg("DEBUGGER_ERROR", p, Nil, Nil)
            /\ ~Has(attachedTabs, t)
            /\ ~uncaught

\* C10 amended: a rejected attach, Network.enable or Fetch.enable call posts
\* DEBUGGER_ERROR to the asking port, which receives it if it is still
\* connected; the failing handler leaves attachedTabs as it was; nothing is
\* raised out of the handler.
C10_AttachFailureReported ==
    [][\A t \in Tabs, p \in Ports :
          AttachRejected(t, p)' =>
              /\ emitted' = IF connected[p]
                            THEN Msg("DEBUGGER_ERROR", p, Nil, Nil) ELSE NoMsg
              /\ attachedTabs' = attachedTabs
              /\ ~uncaught']_vars

C10_Witness ==
    /\ lastOp.op = "Fetch.enable"
    /\ lastOp.result = "rejected"
    /\ emitted.type = "DEBUGGER_ERROR"

\* C11: when the DEBUGGER_ATTACHED acknowledgment cannot be delivered, the tab
\* does not stay registered and the debugger is released: in the step where
\* postMessage throws the tab is not in attachedTabs and a detach call is
\* issued for it, and once that call is answered no debugger is attached to
\* the tab.  This is required of the
\* already-attached path (lines 72-80) and of the fresh path (lines 92-102).
AckFailed(t, p) ==
    /\ ~connected[p]
    /\ \/ lastOp = AttachMessage(t, p) /\ txCall.method # "attach"
       \/ lastOp = Op("Fetch.enable", "resolved", t, Nil, p)

CleanupAnswered(t) ==
    /\ lastOp.op = "detach"
    /\ lastOp.tabId = t
    /\ lastOp.port \in Ports

DetachProcessed(t) ==
    /\ lastOp.op = "detach"
    /\ lastOp.tabId = t
    /\ lastOp.port = Nil

C12_DetachTearsDown ==
    \A t \in Tabs :
        DetachProcessed(t) =>
            /\ ~Has(attachedTabs, t)
            /\ \A id \in DOMAIN pendingRequests : Owner(id) # t
            /\ ~uncaught

\* C13: a DETACH_DEBUGGER message for a tab that is not registered issues no
\* chrome.debugger call, raises nothing, and leaves attachedTabs and
\* pendingRequests (and requestData) unchanged.
DetachMessage(t) == Op("DETACH_DEBUGGER", "message", t, Nil, Nil)

C13_DetachUnregisteredIsNoOp ==
    [][\A t \in Tabs :
          (lastOp' = DetachMessage(t) /\ ~Has(attachedTabs, t)) =>
              /\ txCall' = NoCall
              /\ inflight' = inflight
              /\ ~uncaught'
              /\ UNCHANGED <<attachedTabs, pendingRequests, requestData>>]_vars

C13_Witness ==
    /\ lastOp.op = "DETACH_DEBUGGER"
    /\ txCall = NoCall
    /\ ~Has(attachedTabs, lastOp.tabId)
    /\ \E id \in DOMAIN pendingRequests : Owner(id) = lastOp.tabId

\* C14: when the Fetch.continueRequest, Fetch.fulfillRequest or
\* Fetch.failRequest call of a stored exchange is rejected, the exchange stays
\* in pendingRequests as it was and nothing is raised out of the handler; a
\* later resume/block message for the same id, arriving while the exchange is
\* still stored and carrying a patch the command can be composed from, issues
\* a resume call for it again.
ResumeRejected(id) ==
    /\ lastOp.op \in ResumeMethods
    /\ lastOp.result = "rejected"
    /\ lastOp.requestId = id

C14_FailedResumeCanBeRetried ==
    [][\A id \in RequestIds :
          /\ (ResumeRejected(id)' /\ Has(pendingRequests, id)) =>
                 /\ Has(pendingRequests', id)
                 /\ pendingRequests'[id] = pendingRequests[id]
                 /\ ~uncaught'
          /\ (ResumeMessageFor(id)' /\ lastOp'.result = "message"
                 /\ history[id] = "failed") =>
                 /\ ResumeCallFor(id)'
                 /\ txCall'.tabId = Owner(id)]_vars

C14_Witness ==
    \E id \in RequestIds :
        /\ history[id] = "failed"
        /\ ResumeMessageFor(id)
        /\ ResumeCallFor(id)

\* The payload composed last is a command of continueRequest, with patch p.
ContinueRequestBuilt ==
    built.handler = "continueRequest" /\ Has(built.msg, "modifications")

\* The entries of a patch's headers, read as a name/value list.
PatchHeaderList(headers) ==
    IF headers.kind = "list" THEN headers.items
    ELSE IF headers.kind = "mapping"
         THEN [i \in 1..Len(headers.entries) |->
                  [name |-> headers.entries[i][1],
                   value |-> headers.entries[i][2]]]
         ELSE << >>

\* C15 as stated: the continue-request command holds the exchange id and
\* exactly those of url, method, headers and postData that the patch holds,
\* with the patch's values (postData in its base64 form).
C15_Original ==
    ContinueRequestBuilt =>
        LET p == built.msg.modifications
            c == built.command
        IN /\ c.requestId = built.requestId
           /\ DOMAIN c = {"requestId"} \cup DOMAIN p
           /\ Has(p, "url") => c.url = p.url
           /\ Has(p, "method") => c.method = p.method
           /\ Has(p, "headers") => c.headers = PatchHeaderList(p.headers)

\* An entry of a header list that has a non-empty name and a value.
WellFormedHeader(h) ==
    "name" \in DOMAIN h /\ h.name # << >> /\ "value" \in DOMAIN h

\* out is the sequence of the elements of in at the indices in keep, in order.
IsSelection(out, in, keep) ==
    /\ Len(out) = Cardinality(keep)
    /\ \A i \in keep :
           out[Cardinality({j \in keep : j <= i})] = in[i]

\* C15 amended: the command holds the exchange id; url and method exactly
\* when the patch holds a non-empty one, with the patch's value; headers
\* exactly when the patch holds the field, as a name/value list: the entries
\* of a patch list that have a non-empty name and a value, in order; the
\* entries of a patch mapping with a non-empty name, names and values
\* trimmed, in order; the empty list for anything else; postData exactly when
\* the patch holds a text without a lone surrogate, as the base64 form of its
\* UTF-8 bytes; and no other field.  Without a patch it is the id alone.
C15_CommandFollowsPatch ==
    /\ (built.handler = "continueRequest" /\ ~Has(built.msg, "modifications"))
           => built.command = [requestId |-> built.requestId]
    /\ ContinueRequestBuilt =>
        LET p == built.msg.modifications
            c == built.command
        IN /\ c.requestId = built.requestId
           /\ DOMAIN c \subseteq
                  {"requestId", "url", "method", "headers", "postData"}
           /\ Has(c, "url") <=> (Has(p, "url") /\ p.url # << >>)
           /\ Has(c, "url") => c.url = p.url
           /\ Has(c, "method") <=> (Has(p, "method") /\ p.method # << >>)
           /\ Has(c, "method") => c.method = p.method
           /\ Has(c, "headers") <=> Has(p, "headers")
           /\ Has(c, "headers") =>
                  /\ p.headers.kind = "list" =>
                         IsSelection(c.headers, p.headers.items,
                             {i \in 1..Len(p.headers.items) :
                                 WellFormedHeader(p.headers.items[i])})
                  /\ p.headers.kind = "mapping" =>
                         IsSelection(c.headers,
                             [i \in 1..Len(p.headers.entries) |->
                                 [name |-> Trim(p.headers.entries[i][1]),
                                  value |-> Trim(p.headers.entries[i][2])]],
                             {i \in 1..Len(p.headers.entries) :
                                 p.headers.entries[i][1] # << >>})
                  /\ p.headers.kind = "other" => c.headers = << >>
           /\ Has(c, "postData") <=>
                  (Has(p, "postData") /\ WellFormed(p.postData))
           /\ Has(c, "postData") => c.postData = Btoa(Utf8(p.postData))

\* A patch of a method alone, next to one whose headers lose an entry.
C15_Witness ==
    /\ ContinueRequestBuilt
    /\ DOMAIN built.msg.modifications = {"method", "headers"}
    /\ built.msg.modifications.headers.kind = "list"
    /\ Len(built.msg.modifications.headers.items) = 2
    /\ Len(built.command.headers) = 1
    /\ built.msg.modifications.method = <<80>>
    /\ DOMAIN built.command = {"requestId", "method", "headers"}

\* continueResponse composed a fulfill command and dispatched it.
FulfillBuilt ==
    built.handler = "continueResponse" /\ Present(built.command)

\* The patch of the CONTINUE_RESPONSE message; the empty patch without one.
FulfillPatch ==
    IF Has(built.msg, "modifications") THEN built.msg.modifications
    ELSE EmptyMap

\* C16 as stated: every dispatched fulfill command carries responseCode and
\* responseHeaders; each is the patch's value when the patch supplies one,
\* and otherwise the status code and header list captured in the pause event.
C16_Original ==
    FulfillBuilt =>
        LET c == built.command[1]
            p == FulfillPatch
            e == built.params
        IN /\ Has(c, "responseCode") /\ Has(c, "responseHeaders")
           /\ IF Has(p, "responseCode")
              THEN c.responseCode = p.responseCode
              ELSE /\ Has(e, "responseStatusCode")
                   /\ c.responseCode = e.responseStatusCode
           /\ IF Has(p, "responseHeaders")
              THEN c.responseHeaders = p.responseHeaders
              ELSE /\ Has(e, "responseHeaders")
                   /\ c.responseHeaders = e.responseHeaders

\* C16 amended: every dispatched fulfill command carries responseCode and
\* responseHeaders.  responseCode is the patch's code when the patch holds a
\* non-zero one, otherwise the captured status code when the pause event
\* holds a non-zero one, otherwise 200.  responseHeaders is the patch's list
\* when the patch holds one, otherwise the captured list when the pause
\* event holds one, otherwise the empty list.
C16_FulfillCarriesCodeAndHeaders ==
    FulfillBuilt =>
        LET c == built.command[1]
            p == FulfillPatch
            e == built.params
        IN /\ Has(c, "responseCode") /\ Has(c, "responseHeaders")
           /\ (Has(p, "responseCode") /\ p.responseCode # 0)
                  => c.responseCode = p.responseCode
           /\ (~(Has(p, "responseCode") /\ p.responseCode # 0)
                  /\ Has(e, "responseStatusCode")
                  /\ e.responseStatusCode # 0)
                  => c.responseCode = e.responseStatusCode
           /\ (~(Has(p, "responseCode") /\ p.responseCode # 0)
                  /\ ~(Has(e, "responseStatusCode")
                         /\ e.responseStatusCode # 0))
                  => c.responseCode = 200
           /\ Has(p, "responseHeaders")
                  => c.responseHeaders = p.responseHeaders
           /\ (~Has(p, "responseHeaders") /\ Has(e, "responseHeaders"))
                  => c.responseHeaders = e.responseHeaders
           /\ (~Has(p, "responseHeaders") /\ ~Has(e, "responseHeaders"))
                  => c.responseHeaders = << >>

\* A fulfill command without a patch for a pause that captured no status,
\* which carries the default code and the captured headers.
C16_Witness ==
    /\ FulfillBuilt
    /\ ~Has(built.msg, "modifications")
    /\ ~Has(built.params, "responseStatusCode")
    /\ Has(built.params, "responseHeaders")
    /\ built.params.responseHeaders # << >>
    /\ built.command[1].responseCode = 200
    /\ built.command[1].responseHeaders = built.params.responseHeaders

\* This step handles a pause event without a status code for request id of
\* tab t, which is registered when the event arrives.
RequestStagePause(t, id) ==
    /\ Has(attachedTabs, t)
    /\ lastOp' = Op("Fetch.requestPaused", "event", t, id, Nil)
    /\ Has(pendingRequests', id)
    /\ pendingRequests'[id].responseStatusCode = NoStatus

\* C17: a pause event without a response status code that arrives for a
\* registered tab stores the exchange under its id, for that tab, and lets
\* one REQUEST_INTERCEPTED event for that id reach the tab's channel.
C17_RequestPauseStoredAndEmitted ==
    [][\A t \in Tabs, id \in RequestIds :
          (Has(attachedTabs, t)
              /\ lastOp' = Op("Fetch.requestPaused", "event", t, id, Nil)
              /\ (Has(pendingRequests', id) =>
                     pendingRequests'[id].responseStatusCode = NoStatus)) =>
              /\ RequestStagePause(t, id)
              /\ pendingRequests'[id].tabId = t
              /\ Has(requestData', id)
              /\ emitted' = Msg("REQUEST_INTERCEPTED", attachedTabs[t].port,
                                Nil, id)]_vars

\* C18: a pause event that carries a response status code, whatever its
\* value, is announced as RESPONSE_INTERCEPTED with that status, never as
\* REQUEST_INTERCEPTED.
C18_StatusMeansResponse ==
    (built.handler = "handleRequestPaused"
        /\ Has(built.params, "responseStatusCode")) =>
        /\ built.data.type = "RESPONSE_INTERCEPTED"
        /\ built.data.status = built.params.responseStatusCode

\* The step just taken belongs to a run of getResponseBody.
BodySteps == {"GET_RESPONSE_BODY", "Fetch.getResponseBody",
              "Network.getResponseBody"}

\* C19: no step of the body fetch (the message, either accessor's answer,
\* resolved or rejected, the result delivered or not) changes the store of
\* paused exchanges or the session registry.
C19_BodyFetchLeavesStoreAndRegistry ==
    [][lastOp'.op \in BodySteps =>
          /\ pendingRequests' = pendingRequests
          /\ attachedTabs' = attachedTabs]_vars

\* Both accessors failed and the result could not be delivered, with an
\* exchange stored and a tab registered.
C19_Witness ==
    /\ lastOp.op = "Network.getResponseBody"
    /\ lastOp.result = "rejected"
    /\ ~connected[lastOp.port]
    /\ emitted = NoMsg
    /\ Has(pendingRequests, lastOp.requestId)
    /\ Has(attachedTabs, lastOp.tabId)

\* The messages that carry a body an accessor returned to port p for id.
BodyMsgs(p, id) == {BodyMsg(p, id, result) : result \in BodyResults}

\* The order of the accessors: the message calls Fetch.getResponseBody, and
\* Network.getResponseBody is called exactly in the step in which the first
\* call is rejected, for the same tab and id; nothing is raised.
AccessorOrder ==
    /\ lastOp'.op = "GET_RESPONSE_BODY" =>
           txCall' = Call("Fetch.getResponseBody", lastOp'.tabId,
                          lastOp'.requestId)
    /\ (lastOp'.op = "Fetch.getResponseBody" /\ lastOp'.result = "rejected")
           => txCall' = Call("Network.getResponseBody", lastOp'.tabId,
                             lastOp'.requestId)
    /\ txCall'.method = "Network.getResponseBody" =>
           (lastOp'.op = "Fetch.getResponseBody"
               /\ lastOp'.result = "rejected")
    /\ lastOp'.op \in BodySteps => ~uncaught'

PostsTo(q) ==
    \/ /\ lastOp'.op \in {"Fetch.requestPaused", "onDetach"}
       /\ Has(attachedTabs, lastOp'.tabId)
       /\ attachedTabs[lastOp'.tabId].port = q
    \/ /\ lastOp'.op = "Fetch.enable"
       /\ lastOp'.result = "resolved"
       /\ lastOp'.port = q
    \/ /\ lastOp'.op \in {"attach", "Network.enable", "Fetch.enable", "detach"}
       /\ lastOp'.result = "rejected"
       /\ lastOp'.port = q
    \/ /\ lastOp'.op = "Fetch.getResponseBody"
       /\ lastOp'.result = "resolved"
       /\ lastOp'.port = q
    \/ /\ lastOp'.op = "Network.getResponseBody"
       /\ lastOp'.port = q

\* The step just taken failed to deliver: a pause stored for a tab that the
\* step unregistered, an acknowledgment answered by the cleanup detach, or a
\* body-fetch result for a port that is gone.
AfterDeliveryFailure ==
    \/ /\ lastOp.op = "Fetch.requestPaused"
       /\ Has(pendingRequests, lastOp.requestId)
       /\ ~Has(attachedTabs, lastOp.tabId)
    \/ /\ lastOp.op = "Fetch.enable"
       /\ lastOp.result = "resolved"
       /\ txCall = Call("detach", lastOp.tabId, Nil)
    \/ /\ lastOp.op = "Network.getResponseBody"
       /\ ~connected[lastOp.port]

\* What arrives next is handled: a command from a connected port, a pause
\* of a tab with interception enabled, a detach of an attached tab (within
\* the bounds on events and awaited calls).
StillServed ==
    /\ \A p \in Ports, t \in Tabs :
           (connected[p] /\ clock < MaxEvents /\ Room) =>
               /\ ENABLED AttachDebugger(t, p)
               /\ \A id \in BodyIds : ENABLED GetResponseBody(t, id, p)
    /\ \A t \in Tabs :
           (clock < MaxEvents /\ debuggee[t] = "fetch") =>
               /\ ENABLED OnDetach(t)
               /\ \A id \in BodyIds :
                      <<t, id>> \notin txPaused =>
                          ENABLED RequestPaused(t, id, NoStatus)

\* C21: a post to a disconnected port, in pause handling, in the attach
\* acknowledgment or error report, in the notification of an involuntary
\* detach and in the body fetch, emits nothing and raises nothing out of its
\* handler; and after such a failure the worker still handles the commands
\* and events that arrive.
C21_DeliveryFailureIsCaught ==
    /\ [][\A q \in Ports :
             (PostsTo(q) /\ ~connected[q]) =>
                 (~uncaught' /\ emitted' = NoMsg)]_vars
    /\ [](AfterDeliveryFailure => (~uncaught /\ StillServed))

\* A body fetch is taken up after a pause could not be delivered: the pause
\* is stored for a tab that lost its registration with its port gone.
C21_Witness ==
    /\ lastOp.op = "GET_RESPONSE_BODY"
    /\ txCall.method = "Fetch.getResponseBody"
    /\ \E id \in RequestIds :
           /\ Has(pendingRequests, id)
           /\ ~Has(attachedTabs, pendingRequests[id].tabId)
           /\ debuggee[pendingRequests[id].tabId] = "fetch"
    /\ \E p \in Ports : ~connected[p]

\* The step just taken acknowledged an ATTACH_DEBUGGER of a new port for tab
\* t, which is registered with an old port that has disconnected.
Reconnected(t) ==
    /\ lastOp.op = "ATTACH_DEBUGGER"
    /\ lastOp.tabId = t
    /\ emitted = Msg("DEBUGGER_ATTACHED", lastOp.port, t, Nil)
    /\ Has(attachedTabs, t)
    /\ attachedTabs[t].port # lastOp.port
    /\ ~connected[attachedTabs[t].port]

\* C22: after the panel reconnects (its old port is disconnected, a new port
\* sends ATTACH_DEBUGGER for the tab, which is still registered, and gets
\* DEBUGGER_ATTACHED), the interception event of a pause that arrives next
\* for the tab is delivered to the new port.
C22_ReconnectResumesInterception ==
    [][\A t \in Tabs :
          (Reconnected(t) /\ lastOp'.op = "Fetch.requestPaused"
              /\ lastOp'.tabId = t) =>
              /\ emitted'.type \in {"REQUEST_INTERCEPTED",
                                     "RESPONSE_INTERCEPTED"}
              /\ emitted'.port = lastOp.port]_vars

\* The continue command that matches an interception event.
ContinueOf(event) ==
    IF event = "REQUEST_INTERCEPTED" THEN "CONTINUE_REQUEST"
    ELSE "CONTINUE_RESPONSE"

InterceptionEvents == {"REQUEST_INTERCEPTED", "RESPONSE_INTERCEPTED"}

\* C23: while the intercept toggle is off, the panel answers every
\* REQUEST_INTERCEPTED or RESPONSE_INTERCEPTED it receives with exactly one
\* continue command of the matching kind for the same id, without
\* modifications, and leaves its request list as it was.
C23_ToggleOffContinuesAtOnce ==
    [][(panel'.op.name \in InterceptionEvents /\ ~panel.interceptionEnabled)
          => /\ panel'.sent = <<PanelMsg(ContinueOf(panel'.op.name),
                                     panel'.op.requestId, FALSE)>>
             /\ panel'.requests = panel.requests
             /\ ~panel'.thrown]_vars

\* A response event answered at once with the toggle off; the exchange is
\* not listed.
C23_Witness ==
    /\ panel.op.name = "RESPONSE_INTERCEPTED"
    /\ ~panel.interceptionEnabled
    /\ panel.sent = <<PanelMsg("CONTINUE_RESPONSE", panel.op.requestId, FALSE)>>
    /\ ~Has(panel.requests, panel.op.requestId)

\* The panel lists request id as paused.
ShownPaused(id) == Has(panel.requests, id) /\ panel.requests[id].isPaused

UserActions == {"continueRequest", "blockRequest"}

\* C24: a Continue, Continue with Modifications or Block of the user posts
\* a command only for the selected request while it is listed as paused,
\* posts exactly one, and leaves the request listed as not paused; on a
\* request that is not paused it posts nothing; and a request becomes paused
\* only by an interception event for its id that the panel displays.  So
\* the user's commands are at most one per displayed interception event.
C24_OneCommandPerDisplayedEvent ==
    [][/\ (panel'.op.name \in UserActions /\ panel'.sent # << >>) =>
              LET id == panel'.op.requestId
              IN /\ id = panel.selectedRequestId
                 /\ ShownPaused(id)
                 /\ Has(panel'.requests, id)
                 /\ ~panel'.requests[id].isPaused
                 /\ Len(panel'.sent) = 1
                 /\ panel'.sent[1].requestId = id
                 /\ panel'.sent[1].type \in ResumeMessages
       /\ (panel'.op.name \in UserActions
              /\ ~ShownPaused(panel.selectedRequestId)) =>
              panel'.sent = << >>
       /\ \A id \in RequestIds :
              (ShownPaused(id)' /\ ~ShownPaused(id)) =>
                  /\ panel'.op.name \in InterceptionEvents
                  /\ panel'.op.requestId = id
                  /\ panel.interceptionEnabled]_vars

\* A second Continue on a request that was continued already: nothing is
\* posted and nothing is thrown.
C24_Witness ==
    /\ panel.op.name = "continueRequest"
    /\ panel.sent = << >>
    /\ ~panel.thrown
    /\ Has(panel.requests, panel.selectedRequestId)
    /\ panel.requests[panel.selectedRequestId].status = "completed"
    /\ panel.port = "connected"

C26_ResponseReceivedOnlyAnnotates ==
    [][\A t \in Tabs, id \in RequestIds :
          lastOp' = Op("Network.responseReceived", "event", t, id, Nil) =>
              /\ emitted' = NoMsg
              /\ txCall' = NoCall
              /\ ~uncaught'
              /\ pendingRequests' = pendingRequests
              /\ attachedTabs' = attachedTabs
              /\ inflight' = inflight
              /\ DOMAIN requestData' = DOMAIN requestData
              /\ \A x \in DOMAIN requestData :
                     x # id => requestData'[x] = requestData[x]
              /\ (Has(requestData, id) /\ Has(attachedTabs, t)) =>
                     requestData'[id].response
              /\ ~Has(requestData, id) => requestData' = requestData]_vars

\* Response metadata arrived for an exchange that is paused and has a record
\* while another record exists and is left alone.
C26_Witness ==
    /\ lastOp = Op("Network.responseReceived", "event", "t1", "r1", Nil)
    /\ Has(pendingRequests, "r1")
    /\ Has(requestData, "r1")
    /\ requestData["r1"].response
    /\ Has(requestData, "r2")
    /\ ~requestData["r2"].response

\* C27: when the patch of a CONTINUE_REQUEST carries a postData that neither
\* encoding accepts, continueRequest still composes its command for the call:
\* the command has no postData field and is otherwise the command composed for
\* the same patch without a postData, with the exchange id, the url and the
\* method of the patch.
C27_UnencodableBodyIsOmitted ==
    (/\ built.handler = "continueRequest"
     /\ Has(built.msg, "modifications")
     /\ Has(built.msg.modifications, "postData")
     /\ ~WellFormed(built.msg.modifications.postData)
     /\ ~Latin1(built.msg.modifications.postData)) =>
        LET mods == built.msg.modifications
            rest == [k \in DOMAIN mods \ {"postData"} |-> mods[k]]
            command == built.command
        IN /\ ~Has(command, "postData")
           /\ command.requestId = built.requestId
           /\ command =
                  ContinueRequestCommand(built.requestId,
                      [built.msg EXCEPT !.modifications = rest])
           /\ (Has(mods, "url") /\ mods.url # EmptyStr) =>
                  (Has(command, "url") /\ command.url = mods.url)
           /\ (Has(mods, "method") /\ mods.method # EmptyStr) =>
                  (Has(command, "method") /\ command.method = mods.method)
           /\ Has(mods, "headers") <=> Has(command, "headers")

\* A patch with a url, a method, headers and a lone surrogate as postData
\* gave a command with the url, the method and headers but no postData.
C27_Witness ==
    /\ built.handler = "continueRequest"
    /\ Has(built.msg, "modifications")
    /\ Has(built.msg.modifications, "postData")
    /\ built.msg.modifications.postData = <<55357>>
    /\ DOMAIN built.command = {"requestId", "url", "method", "headers"}
    /\ built.command.headers # << >>

\* C28: when the patch of a CONTINUE_RESPONSE carries a body that neither
\* encoding accepts, continueResponse composes its fulfill command without a
\* body field, as continueRequest does with a postData, and the command is
\* dispatched.
C28_FulfillBodyFallback ==
    (/\ built.handler = "continueResponse"
     /\ Has(built.msg, "modifications")
     /\ Has(built.msg.modifications, "body")
     /\ ~WellFormed(built.msg.modifications.body)
     /\ ~Latin1(built.msg.modifications.body)) =>
        /\ Len(built.command) = 1
        /\ ~Has(built.command[1], "body")

\* Header data that is neither a list of entries with a name and a value each
\* nor a mapping.
MalformedHeaders(headers) ==
    \/ headers.kind = "other"
    \/ /\ headers.kind = "list"
       /\ \E i \in 1..Len(headers.items) :
              ~(Has(headers.items[i], "name") /\ Has(headers.items[i], "value"))

\* C29: the REQUEST_INTERCEPTED message composed for a request-stage pause
\* whose header data is malformed has empty headers in both forms, headers and
\* headersArray.
C29_MalformedHeadersBecomeEmpty ==
    (/\ built.handler = "handleRequestPaused"
     /\ built.data.type = "REQUEST_INTERCEPTED"
     /\ Has(built.params.request, "headers")
     /\ MalformedHeaders(built.params.request.headers)) =>
        /\ built.data.headers = << >>
        /\ built.data.headersArray = << >>

\* The name/value pairs of a mapping, whatever their order.
Pairs(mapping) == {mapping[i] : i \in 1..Len(mapping)}

\* C30 as stated: a header mapping turned into the name/value list and back
\* into a mapping has exactly the original pairs, with either conversion to a
\* list.
C30_Original ==
    built.handler = "roundTrip" =>
        /\ Pairs(built.back) = Pairs(built.mapping)
        /\ Pairs(built.commandBack) = Pairs(built.mapping)

\* C30 amended: the list handleRequestPaused makes of a mapping has one entry
\* per pair, in order, and turning it back yields exactly the pairs with a
\* non-empty name, so a mapping without an empty name round-trips.  With the
\* list continueRequest makes of a mapping, which trims names and values, the
\* mapping round-trips if in addition no name or value starts or ends with a
\* space.
C30_RoundTripOfNamedHeaders ==
    built.handler = "roundTrip" =>
        LET m == built.mapping
            named == {q \in Pairs(m) : q[1] # EmptyStr}
            trimmed == \A q \in Pairs(m) : Trim(q[1]) = q[1] /\ Trim(q[2]) = q[2]
        IN /\ Len(built.list) = Len(m)
           /\ \A i \in 1..Len(m) :
                  built.list[i] = [name |-> m[i][1], value |-> m[i][2]]
           /\ Pairs(built.back) = named
           /\ Len(built.back) = Cardinality(named)
           /\ (named = Pairs(m) /\ trimmed) =>
                  /\ Pairs(built.commandBack) = Pairs(m)
                  /\ Len(built.commandBack) = Len(m)

\* A mapping of two headers, one with a space before its name and one with a
\* space after its value, came back unchanged from the list of
\* handleRequestPaused, and changed from the list of continueRequest.
C30_Witness ==
    /\ built.handler = "roundTrip"
    /\ built.mapping = << <<<<32, 65>>, <<118>>>>, <<<<65>>, <<118, 32>>>> >>
    /\ Len(built.list) = 2
    /\ Pairs(built.back) = Pairs(built.mapping)
    /\ Pairs(built.commandBack) # Pairs(built.mapping)

\* C31: the statusText of a RESPONSE_INTERCEPTED message is the entry of the
\* table of getStatusText for the status code of the pause, which is the
\* status of the message, and "Unknown" for a code the table does not hold.
C31_StatusTextFromTable ==
    (/\ built.handler = "handleRequestPaused"
     /\ built.data.type = "RESPONSE_INTERCEPTED") =>
        LET code == built.data.status
        IN /\ code = built.params.responseStatusCode
           /\ code \in DOMAIN StatusTexts =>
                  built.data.statusText = StatusTexts[code]
           /\ code \notin DOMAIN StatusTexts =>
                  built.data.statusText = "Unknown"
           /\ code = 200 => built.data.statusText = "OK"
           /\ code = 304 => built.data.statusText = "Not Modified"
           /\ code = 404 => built.data.statusText = "Not Found"
           /\ code = 503 => built.data.statusText = "Service Unavailable"

\* A response-stage pause with a status code outside the table was announced
\* with the text "Unknown".
C31_Witness ==
    /\ built.handler = "handleRequestPaused"
    /\ built.data.type = "RESPONSE_INTERCEPTED"
    /\ built.data.status = 504
    /\ built.data.statusText = "Unknown"

\* The messages that announce a pause.
InterceptionTypes == {"REQUEST_INTERCEPTED", "RESPONSE_INTERCEPTED"}

\* C32: the step that handles a pause event of a registered tab stores the
\* pause under its id with that tab and posts its interception message to the
\* tab's port, delivered if the port is connected, before any other event is
\* handled; and an interception message is emitted only by the step that
\* handles the pause event of its exchange id.  Interception messages
\* therefore leave in the order in which their pause events arrived.
C32_PausesHandledInArrivalOrder ==
    /\ [][\A t \in Tabs, id \in RequestIds :
            (/\ lastOp' = Op("Fetch.requestPaused", "event", t, id, Nil)
             /\ Has(attachedTabs, t)) =>
                /\ Has(pendingRequests', id)
                /\ pendingRequests'[id].tabId = t
                /\ IF connected[attachedTabs[t].port]
                   THEN /\ emitted'.type \in InterceptionTypes
                        /\ emitted'.requestId = id
                        /\ emitted'.port = attachedTabs[t].port
                   ELSE emitted' = NoMsg]_vars
    /\ [][emitted'.type \in InterceptionTypes =>
            /\ lastOp'.op = "Fetch.requestPaused"
            /\ lastOp'.requestId = emitted'.requestId
            /\ clock' = clock + 1]_vars

\* Two pauses of one tab arrived one after the other: the second was just
\* announced while the first, announced before, is stored next to it.
C32_Witness ==
    /\ lastOp = Op("Fetch.requestPaused", "event", "t1", "r2", Nil)
    /\ emitted.type = "REQUEST_INTERCEPTED"
    /\ emitted.requestId = "r2"
    /\ Has(pendingRequests, "r1")
    /\ Has(pendingRequests, "r2")
    /\ pendingRequests["r1"].tabId = "t1"
    /\ pendingRequests["r2"].tabId = "t1"
    /\ dispatched["r1"] = 0

\* C33: when the answer to a resume call for exchange id X of tab t is
\* handled while the store holds for X a pause of another tab, a pause that
\* arrived after the call was issued (a call goes to the tab stored for X at
\* that time), that pause is still stored afterwards.
C33_NewPauseSurvivesEarlierResume ==
    [][\A t \in Tabs, id \in RequestIds :
          (/\ lastOp'.op \in ResumeMethods
           /\ lastOp'.result \in {"resolved", "rejected"}
           /\ lastOp'.tabId = t
           /\ lastOp'.requestId = id
           /\ Has(pendingRequests, id)
           /\ pendingRequests[id].tabId # t) =>
              /\ Has(pendingRequests', id)
              /\ pendingRequests'[id] = pendingRequests[id]]_vars

\* The attach round trip of tab t is pending: one of the three calls of
\* attachDebugger is awaited.
AttachPending(t) ==
    \E i \in 1..Len(inflight[t]) :
        /\ inflight[t][i].op = "attachDebugger"
        /\ inflight[t][i].method \in {"attach", "Network.enable", "Fetch.enable"}

\* C34: an ATTACH_DEBUGGER message for a tab whose attach round trip is
\* pending issues no second chrome.debugger.attach call, and the answers to
\* the calls of overlapping attaches produce no DEBUGGER_ERROR.
C34_OverlappingAttachesShareOneCall ==
    /\ [][\A t \in Tabs :
            (/\ lastOp'.op = "ATTACH_DEBUGGER"
             /\ lastOp'.tabId = t
             /\ AttachPending(t)) => txCall' = NoCall]_vars
    /\ [][\A t \in Tabs :
            (/\ Len(inflight[t]) = 2
             /\ \A i \in 1..2 : inflight[t][i].op = "attachDebugger"
             /\ lastOp'.tabId = t
             /\ lastOp'.result \in {"resolved", "rejected"}) =>
                emitted'.type # "DEBUGGER_ERROR"]_vars

\* An attach or detach round trip is in flight for tab t: a call of
\* attachDebugger or detachDebugger is awaited.
SessionChanging(t) ==
    \E i \in 1..Len(inflight[t]) :
        inflight[t][i].op \in {"attachDebugger", "detachDebugger"}

\* C35: while no attach or detach round trip is in flight for a tab, the
\* browser has a debugger attached to the tab exactly if the tab is
\* registered in attachedTabs.
C35_RegistryMatchesDebugger ==
    \A t \in Tabs :
        ~SessionChanging(t) => (IsAttached(t) <=> Has(attachedTabs, t))

\* A resume call for request id is dispatched to tab t by the last step.
ResumeDispatched(t, id) ==
    /\ txCall.method \in ResumeMethods
    /\ txCall.tabId = t
    /\ txCall.requestId = id

\* C36: if no call is ever rejected (and the count of events handled never
\* reaches its bound, so that the operator can always answer), every request
\* the browser holds paused on a tab is eventually the subject of a resume
\* call dispatched to that tab, or the debugger is detached from the tab.
C36_NoPauseStranded ==
    ([](clock < MaxEvents) /\ [](lastOp.result # "rejected")) =>
        \A t \in Tabs, id \in RequestIds :
            (<<t, id>> \in txPaused) ~>
                (ResumeDispatched(t, id) \/ ~IsAttached(t))

\* The chrome.debugger method each resume message leads to.
MethodOf(message) ==
    CASE message = "CONTINUE_REQUEST" -> "Fetch.continueRequest"
      [] message = "CONTINUE_RESPONSE" -> "Fetch.fulfillRequest"
      [] message = "BLOCK_REQUEST" -> "Fetch.failRequest"

\* C37: a resume call (continue, fulfill or fail) is issued only by the
\* handler of a resume message for a stored exchange, and goes to the tab
\* recorded in the store for the exchange id; the tab recorded for an id is
\* set by the pause event stored for the id, as the tab of that event, and by
\* nothing else.
C37_ResumeGoesToPausedTab ==
    /\ [][txCall'.method \in ResumeMethods =>
            /\ lastOp'.op \in ResumeMessages
            /\ lastOp'.result = "message"
            /\ txCall'.method = MethodOf(lastOp'.op)
            /\ txCall'.requestId = lastOp'.requestId
            /\ Has(pendingRequests, txCall'.requestId)
            /\ txCall'.tabId = pendingRequests[txCall'.requestId].tabId
            /\ inflight'[txCall'.tabId] # << >>
            /\ inflight'[txCall'.tabId][Len(inflight'[txCall'.tabId])].method
                   = txCall'.method]_vars
    /\ [][\A id \in RequestIds :
            (/\ Has(pendingRequests', id)
             /\ ~(Has(pendingRequests, id)
                    /\ pendingRequests[id].tabId = pendingRequests'[id].tabId))
                => lastOp' = Op("Fetch.requestPaused", "event",
                                pendingRequests'[id].tabId, id, Nil)]_vars

\* With a pause of t1 and a pause of t2 stored, the exchange paused on t2 was
\* answered and its call went to t2.
C37_Witness ==
    /\ lastOp.op \in ResumeMessages
    /\ lastOp.requestId = "r2"
    /\ txCall.method \in ResumeMethods
    /\ txCall.tabId = "t2"
    /\ txCall.requestId = "r2"
    /\ Has(pendingRequests, "r1")
    /\ pendingRequests["r1"].tabId = "t1"
    /\ Has(pendingRequests, "r2")
    /\ pendingRequests["r2"].tabId = "t2"
    /\ <<"t2", "r2">> \in txPaused

\* The call at the head of tab t's queue belongs to a run of getResponseBody.
BodyRunAt(t) ==
    inflight[t] # << >> /\ Head(inflight[t]).op = "getResponseBody"

\* C38: a RESPONSE_BODY message is emitted only by the step that ends a run
\* of getResponseBody, to the port and for the request id of that run, and
\* the step in which a run goes on (the first accessor failed and the
\* fallback call is issued) emits nothing: no run of getResponseBody delivers
\* more than one RESPONSE_BODY message, whatever the accessors answer and
\* whether or not the port takes the message.
C38_AtMostOneBodyMessage ==
    /\ [][emitted'.type = "RESPONSE_BODY" =>
            \E t \in Tabs :
                /\ BodyRunAt(t)
                /\ lastOp'.tabId = t
                /\ lastOp'.op = Head(inflight[t]).method
                /\ inflight' = Answered(t)
                /\ txCall' = NoCall
                /\ emitted'.port = Head(inflight[t]).port
                /\ emitted'.requestId = Head(inflight[t]).requestId
                /\ connected[emitted'.port]]_vars
    /\ [][\A t \in Tabs :
            (/\ BodyRunAt(t)
             /\ lastOp'.tabId = t
             /\ lastOp'.op = Head(inflight[t]).method
             /\ lastOp'.result \in {"resolved", "rejected"}
             /\ inflight' # Answered(t)) =>
                /\ emitted' = NoMsg
                /\ lastOp'.result = "rejected"
                /\ lastOp'.op = "Fetch.getResponseBody"
                /\ txCall'.method = "Network.getResponseBody"]_vars

\* The first accessor had failed and the fallback ended the run with one
\* message, the body, delivered to the asking port.
C38_Witness ==
    /\ lastOp.op = "Network.getResponseBody"
    /\ lastOp.result = "resolved"
    /\ emitted.type = "RESPONSE_BODY"
    /\ ~emitted.notAvailable
    /\ emitted.port = lastOp.port
    /\ inflight[lastOp.tabId] = << >>

\* No command and no transport round-trip is in flight: nothing waits on
\* the port in either direction and no call of the worker is unanswered.
Quiescent ==
    /\ wire.joined
    /\ wire.toWorker = << >>
    /\ wire.toPanel = << >>
    /\ \A t \in Tabs : inflight[t] = << >>

\* C39: in every quiescent state, a request the panel shows as completed
\* or blocked is not in the worker's pendingRequests, and a request the
\* panel shows as paused is in pendingRequests.
C39_PanelAgreesWithStore ==
    Quiescent =>
        \A id \in DOMAIN panel.requests :
            /\ panel.requests[id].status \in {"completed", "blocked"}
                   => ~Has(pendingRequests, id)
            /\ panel.requests[id].isPaused => Has(pendingRequests, id)

====
